---- MODULE Spec2Model ----
(***************************************************************************)
(* A model of LitGB's sprite pipeline: the row interleaver, the colour-    *)
(* triplet layer splitter and the GB Studio frame/tile descriptor          *)
(* generator.  Rasters are PIL images: a width, a height and one RGB       *)
(* colour per pixel, addressed (x, y) from (0, 0).                         *)
(***************************************************************************)
EXTENDS Integers, Sequences, FiniteSets, TLC

VARIABLES
    il_image,        \* interleave: the caller's raster
    il_tile_height,  \* interleave: tile_height argument
    il_vtiles,       \* interleave: vert_tiles_per_frame argument
    il_result,       \* interleave: the returned raster (NoImage before the call)
    il_pc,           \* interleave: "start", "done" or "error"
    tp_image,        \* _extract_color_triplets: the raster
    tp_idx,          \* _extract_color_triplets: idx
    tp_triplets,     \* _extract_color_triplets: triplets
    tp_pc,           \* _extract_color_triplets: "scan" or "done"
    sp_image,        \* layer splitter process: the caller's raster
    sp_result,       \* layer splitter process: the returned raster
    sp_error,        \* layer splitter process: the ValueError raised, or "none"
    sp_pc,           \* layer splitter process: "start", "done" or "error"
    g_image,         \* generator process: the caller's raster
    g_params,        \* generator process: the parsed parameters
    g_run,           \* generator process: how many invocations came before this one
    g_first,         \* generator process: what the previous invocation returned
    g_local,         \* generator process: the local `image` after interleave
    g_data,          \* generator process: data, the descriptor being built
    g_state_offset,  \* generator process: state_offset
    g_state_index,   \* generator process: state_index of the next state
    g_error,         \* generator process: the ValueError raised, or "none"
    g_result,        \* generator process: the returned raster and its extra_data
    g_pc,            \* generator process: position in process
    d_image,         \* deduplicator process: image, the raster with extra_data
    d_cfg,           \* deduplicator process: the parameters extra_data was generated with
    d_before,        \* deduplicator process: extra_data as it was when the pass began
    d_data,          \* deduplicator process: animation_data (image.extra_data)
    d_pos,           \* deduplicator process: how many tiles the loops have visited
    d_tile_hashes,   \* deduplicator process: tile_hashes
    d_tile_replacements, \* deduplicator process: tile_replacements
    d_total_tiles,   \* deduplicator process: total_tiles
    d_duplicate_tiles,   \* deduplicator process: duplicate_tiles
    d_pass,          \* deduplicator process: how many passes have returned
    d_pc,            \* deduplicator process: "start", "tiles" or "done"
    w_image,         \* wrapper process: the caller's raster
    w_params,        \* wrapper process: the parsed parameters
    w_gbsres,        \* wrapper process: gbsres_data, the template, or NoTemplate
    w_result,        \* wrapper process: the returned raster and its extra_data
    w_error,         \* wrapper process: the error raised, or "none"
    w_pc             \* wrapper process: "start", "generate", "done" or "error"

il_vars == <<il_image, il_tile_height, il_vtiles, il_result, il_pc>>
tp_vars == <<tp_image, tp_idx, tp_triplets, tp_pc>>
sp_vars == <<sp_image, sp_result, sp_error, sp_pc>>
g_vars == <<g_image, g_params, g_run, g_first, g_local, g_data, g_state_offset, g_state_index,
            g_error, g_result, g_pc>>
d_vars == <<d_image, d_cfg, d_before, d_data, d_pos, d_tile_hashes,
            d_tile_replacements, d_total_tiles, d_duplicate_tiles, d_pass, d_pc>>
w_vars == <<w_image, w_params, w_gbsres, w_result, w_error, w_pc>>
vars == <<il_vars, tp_vars, sp_vars, g_vars, d_vars, w_vars>>

------------------------------------------------------------------------------
(* Bounds of the model. *)

\* interleave rasters hold at most IlMaxArea pixels (width * height)
IlMaxArea == 10
\* tile_height and vert_tiles_per_frame range over 0..IlMaxTile
IlMaxTile == 2

\* first rows (and so rasters) of the triplet parser are at most TpMaxW wide
TpMaxW == 9
\* layer splitter rasters are at most SpMaxW wide with at most SpMaxBody body rows
SpMaxW == 8
SpMaxBody == 2

\* generator rasters are at most GMaxW wide and GMaxH high
GMaxW == 3
GMaxH == 4

------------------------------------------------------------------------------
(* Colours. *)

Sentinel == <<0, 255, 0>>
Black == <<0, 0, 0>>
Red == <<255, 0, 0>>
Blue == <<0, 0, 255>>
Grey == <<128, 128, 128>>

------------------------------------------------------------------------------
(* PIL rasters. *)

NoImage == [w |-> 0, h |-> 0, px |-> <<>>]

Coords(w, h) == (0 .. (w - 1)) \X (0 .. (h - 1))

\* every raster of the given size over the given colours
Rasters(w, h, colours) ==
    { [w |-> w, h |-> h, px |-> f] : f \in [Coords(w, h) -> colours] }

\* Image.new('RGB', (w, h), fill)
ImageNew(w, h, fill) ==
    [w |-> w, h |-> h, px |-> [p \in Coords(w, h) |-> fill]]

\* a copy that loses the pixels
ImageCopyBlank(image) ==
    ImageNew(image.w, image.h, Black)

\* image.copy(): a new raster holding the same pixels
ImageCopy(image) ==
    [w |-> image.w, h |-> image.h, px |-> [p \in Coords(image.w, image.h) |-> image.px[p]]]

\* image.crop((left, upper, right, lower)): pixels outside the source are zero
ImageCrop(image, left, upper, right, lower) ==
    [w |-> right - left, h |-> lower - upper,
     px |-> [p \in Coords(right - left, lower - upper) |->
                IF <<p[1] + left, p[2] + upper>> \in Coords(image.w, image.h)
                THEN image.px[<<p[1] + left, p[2] + upper>>]
                ELSE Black]]

\* dst.paste(src, (x0, y0)): src overwrites dst where they overlap
ImagePaste(dst, src, x0, y0) ==
    [dst EXCEPT !.px =
        [p \in Coords(dst.w, dst.h) |->
            IF <<p[1] - x0, p[2] - y0>> \in Coords(src.w, src.h)
            THEN src.px[<<p[1] - x0, p[2] - y0>>]
            ELSE dst.px[p]]]

------------------------------------------------------------------------------
(* Row Interleaver: interleave(image, tile_height, vert_tiles_per_frame). *)

\* the crop loops with the B rows taken from the bottom of the raster
CropRowsFromBottom(image, lo, hi, row_height) ==
    LET shift == IF lo = 0 THEN 0 ELSE (image.h \div row_height) - hi
    IN [k \in 1 .. (hi - lo) |->
           ImageCrop(image, 0, (lo + shift + k - 1) * row_height,
                     image.w, (lo + shift + k - 1) * row_height + row_height)]

\* the crop loops: rows lo .. hi-1 of height row_height, as a list
CropRows(image, lo, hi, row_height) ==
    [k \in 1 .. (hi - lo) |->
        ImageCrop(image, 0, (lo + k - 1) * row_height,
                  image.w, (lo + k - 1) * row_height + row_height)]

\* the paste loop with the B row pasted above the A row
RECURSIVE PasteRowsBFirst(_, _, _, _, _, _)
PasteRowsBFirst(result, a_rows, b_rows, i, n, row_height) ==
    IF i >= n THEN result
    ELSE LET result_y == 2 * i * row_height
             withB == ImagePaste(result, b_rows[i + 1], 0, result_y)
             withA == ImagePaste(withB, a_rows[i + 1], 0, result_y + row_height)
         IN PasteRowsBFirst(withA, a_rows, b_rows, i + 1, n, row_height)

\* the paste loop from index i with result_y = 2 * i * row_height
RECURSIVE PasteRows(_, _, _, _, _, _)
PasteRows(result, a_rows, b_rows, i, n, row_height) ==
    IF i >= n THEN result
    ELSE LET result_y == 2 * i * row_height
             withA == ImagePaste(result, a_rows[i + 1], 0, result_y)
             withB == ImagePaste(withA, b_rows[i + 1], 0, result_y + row_height)
         IN PasteRows(withB, a_rows, b_rows, i + 1, n, row_height)

\* total_rows after the odd row is discarded
TotalRows(height, row_height) ==
    LET total_rows == height \div row_height
    IN IF total_rows % 2 # 0 THEN total_rows - 1 ELSE total_rows

interleave(image, tile_height, vert_tiles_per_frame) ==
    LET row_height == tile_height * vert_tiles_per_frame
        width == image.w
        height == image.h
    IN IF height < row_height * 2 THEN ImageCopy(image)
       ELSE LET total_rows == TotalRows(height, row_height)
            IN IF total_rows < 2 THEN ImageCopy(image)
               ELSE LET n == total_rows \div 2
                        a_rows == CropRows(image, 0, n, row_height)
                        b_rows == CropRows(image, n, total_rows, row_height)
                    IN PasteRows(ImageNew(width, height, Black),
                                 a_rows, b_rows, 0, n, row_height)

------------------------------------------------------------------------------
(* The interleaver called on its own. *)

IlColours == {Sentinel, Red}

IlSizes ==
    { s \in (1 .. IlMaxArea) \X (1 .. IlMaxArea) : s[1] * s[2] <= IlMaxArea }

\* the variables of the components a specification leaves idle
IdleInterleave ==
    /\ il_image = NoImage /\ il_tile_height = 0 /\ il_vtiles = 0
    /\ il_result = NoImage /\ il_pc = "idle"

IdleTriplets ==
    /\ tp_image = NoImage /\ tp_idx = 0 /\ tp_triplets = <<>> /\ tp_pc = "idle"

IdleSplitter ==
    /\ sp_image = NoImage /\ sp_result = NoImage /\ sp_error = "none"
    /\ sp_pc = "idle"

IdleGenerator ==
    /\ g_image = NoImage /\ g_params = <<>> /\ g_local = NoImage
    /\ g_run = 0 /\ g_first = <<>>
    /\ g_data = <<>> /\ g_state_offset = 0 /\ g_state_index = 0
    /\ g_error = "none" /\ g_result = <<>> /\ g_pc = "idle"

IdleDedup ==
    /\ d_image = NoImage /\ d_cfg = <<>> /\ d_before = <<>> /\ d_data = <<>>
    /\ d_pos = 0 /\ d_tile_hashes = <<>> /\ d_tile_replacements = <<>>
    /\ d_total_tiles = 0 /\ d_duplicate_tiles = 0 /\ d_pass = 0 /\ d_pc = "idle"

IdleWrapper ==
    /\ w_image = NoImage /\ w_params = <<>> /\ w_gbsres = <<>>
    /\ w_result = <<>> /\ w_error = "none" /\ w_pc = "idle"

InitInterleave ==
    /\ IdleTriplets /\ IdleSplitter /\ IdleGenerator /\ IdleDedup /\ IdleWrapper
    /\ \E s \in IlSizes : il_image \in Rasters(s[1], s[2], IlColours)
    /\ il_tile_height \in 0 .. IlMaxTile
    /\ il_vtiles \in 0 .. IlMaxTile
    /\ il_result = NoImage
    /\ il_pc = "start"

\* lines 66-67: ValueError
InterleaveReject ==
    /\ il_pc = "start"
    /\ (il_tile_height <= 0 \/ il_vtiles <= 0)
    /\ il_pc' = "error"
    /\ UNCHANGED <<il_image, il_tile_height, il_vtiles, il_result>>
    /\ UNCHANGED <<tp_vars, sp_vars, g_vars, d_vars, w_vars>>

InterleaveCall ==
    /\ il_pc = "start"
    /\ ~(il_tile_height <= 0 \/ il_vtiles <= 0)
    /\ il_result' = interleave(il_image, il_tile_height, il_vtiles)
    /\ il_pc' = "done"
    /\ UNCHANGED <<il_image, il_tile_height, il_vtiles>>
    /\ UNCHANGED <<tp_vars, sp_vars, g_vars, d_vars, w_vars>>

NextInterleave == InterleaveReject \/ InterleaveCall

SpecInterleave == InitInterleave /\ [][NextInterleave]_vars

IlRowHeight == il_tile_height * il_vtiles

\* band `dst` of the result is pixel-for-pixel band `src` of the input
IlBandIs(dst, src) ==
    \A x \in 0 .. (il_image.w - 1), r \in 0 .. (IlRowHeight - 1) :
        /\ <<x, dst * IlRowHeight + r>> \in DOMAIN il_result.px
        /\ il_result.px[<<x, dst * IlRowHeight + r>>]
               = il_image.px[<<x, src * IlRowHeight + r>>]

\* the first m bands (m even) are interleaved A0,B0,A1,B1,...
IlInterleaved(m) ==
    \A k \in 0 .. ((m \div 2) - 1) :
        IlBandIs(2 * k, k) /\ IlBandIs(2 * k + 1, (m \div 2) + k)

\* C1: when the raster is exactly N bands high, N even and N >= 2, output
\* band 2k is input band k and output band 2k+1 is input band N/2+k, for
\* every k in [0, N/2).
C1_EvenBands ==
    (il_pc = "done" /\ il_image.h % IlRowHeight = 0
        /\ (il_image.h \div IlRowHeight) % 2 = 0
        /\ il_image.h \div IlRowHeight >= 2)
    => IlInterleaved(il_image.h \div IlRowHeight)

\* four bands or more, so that the interleaving moved a band
C1_Witness ==
    /\ il_pc = "done"
    /\ il_image.h % IlRowHeight = 0
    /\ (il_image.h \div IlRowHeight) % 2 = 0
    /\ il_image.h \div IlRowHeight >= 4
    /\ il_result # il_image

\* C2: with fewer than 2 complete bands (height < 2 * row height) the call
\* returns a raster of the same width and height holding the same pixels,
\* and leaves the input raster as it was.
C2_TooFewBands ==
    [][(il_pc = "start" /\ il_pc' = "done" /\ il_image.h < 2 * IlRowHeight)
        => (/\ il_result'.w = il_image.w
            /\ il_result'.h = il_image.h
            /\ il_result'.px = il_image.px
            /\ il_image' = il_image)]_vars

C2_Witness ==
    /\ il_pc = "done"
    /\ il_image.h < 2 * IlRowHeight
    /\ il_result = il_image
    /\ \E p \in DOMAIN il_image.px, q \in DOMAIN il_image.px :
           il_image.px[p] # il_image.px[q]

\* the number of bands the interleaving includes
IlIncluded == 2 * ((il_image.h \div IlRowHeight) \div 2)

\* C3: with an odd number N >= 3 of complete bands, or rows below the last
\* complete band, the first even number of bands is interleaved over its two
\* halves and no input pixel below the last included band reaches the
\* output: the output rows below it hold the blank fill.
C3_OddOrPartial ==
    (il_pc = "done" /\ il_image.h >= 2 * IlRowHeight
        /\ il_image.h # IlIncluded * IlRowHeight)
    => /\ IlInterleaved(IlIncluded)
       /\ il_result.w = il_image.w /\ il_result.h = il_image.h
       /\ \A p \in DOMAIN il_result.px :
             p[2] >= IlIncluded * IlRowHeight => il_result.px[p] = Black

\* five bands, the dropped fifth holding a pixel that is not background
C3_Witness ==
    /\ il_pc = "done"
    /\ il_image.h = 5 * IlRowHeight
    /\ \E p \in DOMAIN il_image.px :
          p[2] >= 4 * IlRowHeight /\ il_image.px[p] = Red
    /\ il_result # il_image

------------------------------------------------------------------------------
(* Colour-Triplet Layer Splitter: _extract_color_triplets. *)

\* first_row_pixels
FirstRow(image, width) == [x \in 0 .. (width - 1) |-> image.px[<<x, 0>>]]

\* the while condition
ScanInRange(idx, width) == idx + 3 < width

\* c1 == (0, 255, 0)
ScanAtSentinel(row, idx) == row[idx] = Sentinel

\* a break pixel read one position early
BreakPixelEarly(row, idx) == row[idx + 2]

\* break_pixel
BreakPixel(row, idx) == row[idx + 3]

\* (c1, c2, c3)
TripletAt(row, idx) == <<row[idx], row[idx + 1], row[idx + 2]>>

\* the while loop, from idx with the triplets found so far
RECURSIVE ScanLoop(_, _, _, _)
ScanLoop(row, width, idx, triplets) ==
    IF ~ScanInRange(idx, width) THEN triplets
    ELSE IF ScanAtSentinel(row, idx) THEN triplets
    ELSE IF BreakPixel(row, idx) = Sentinel
         THEN ScanLoop(row, width, idx + 4, Append(triplets, TripletAt(row, idx)))
         ELSE ScanLoop(row, width, idx + 1, triplets)

_extract_color_triplets(image, width) ==
    ScanLoop(FirstRow(image, width), width, 0, <<>>)

------------------------------------------------------------------------------
(* The triplet parser called on its own, one loop iteration per step. *)

TpColours == {Sentinel, Red, Blue}

TpRow == FirstRow(tp_image, tp_image.w)

InitTriplets ==
    /\ IdleInterleave /\ IdleSplitter /\ IdleGenerator /\ IdleDedup /\ IdleWrapper
    /\ \E w \in 1 .. TpMaxW : tp_image \in Rasters(w, 1, TpColours)
    /\ tp_idx = 0
    /\ tp_triplets = <<>>
    /\ tp_pc = "scan"

\* the while condition fails: return triplets
ScanEnd ==
    /\ tp_pc = "scan"
    /\ ~ScanInRange(tp_idx, tp_image.w)
    /\ tp_pc' = "done"
    /\ UNCHANGED <<tp_image, tp_idx, tp_triplets, il_vars, sp_vars, g_vars, d_vars, w_vars>>

\* lines 70-71: break
ScanBreak ==
    /\ tp_pc = "scan"
    /\ ScanInRange(tp_idx, tp_image.w)
    /\ ScanAtSentinel(TpRow, tp_idx)
    /\ tp_pc' = "done"
    /\ UNCHANGED <<tp_image, tp_idx, tp_triplets, il_vars, sp_vars, g_vars, d_vars, w_vars>>

\* a step that moves past the triplet and not past its break pixel
ScanTakeOntoBreakPixel ==
    /\ tp_pc = "scan"
    /\ ScanInRange(tp_idx, tp_image.w)
    /\ ~ScanAtSentinel(TpRow, tp_idx)
    /\ BreakPixel(TpRow, tp_idx) = Sentinel
    /\ tp_triplets' = Append(tp_triplets, TripletAt(TpRow, tp_idx))
    /\ tp_idx' = tp_idx + 3
    /\ UNCHANGED <<tp_image, tp_pc, il_vars, sp_vars, g_vars, d_vars, w_vars>>

\* lines 74-76: a triplet followed by the break pixel
ScanTake ==
    /\ tp_pc = "scan"
    /\ ScanInRange(tp_idx, tp_image.w)
    /\ ~ScanAtSentinel(TpRow, tp_idx)
    /\ BreakPixel(TpRow, tp_idx) = Sentinel
    /\ tp_triplets' = Append(tp_triplets, TripletAt(TpRow, tp_idx))
    /\ tp_idx' = tp_idx + 4
    /\ UNCHANGED <<tp_image, tp_pc, il_vars, sp_vars, g_vars, d_vars, w_vars>>

\* lines 77-78: move one pixel forward
ScanSkip ==
    /\ tp_pc = "scan"
    /\ ScanInRange(tp_idx, tp_image.w)
    /\ ~ScanAtSentinel(TpRow, tp_idx)
    /\ BreakPixel(TpRow, tp_idx) # Sentinel
    /\ tp_idx' = tp_idx + 1
    /\ UNCHANGED <<tp_image, tp_triplets, tp_pc, il_vars, sp_vars, g_vars, d_vars, w_vars>>

NextTriplets == ScanEnd \/ ScanBreak \/ ScanTake \/ ScanSkip

SpecTriplets == InitTriplets /\ [][NextTriplets]_vars

\* the call runs on: while an iteration of the loop can be taken, one is
SpecTripletsFair == SpecTriplets /\ WF_vars(NextTriplets)

\* the triplets the scan described by C6 finds from index i on
RECURSIVE C6_Found(_, _, _)
C6_Found(row, width, i) ==
    IF ~(i + 3 < width) \/ row[i] = <<0, 255, 0>> THEN <<>>
    ELSE IF row[i + 3] = <<0, 255, 0>>
         THEN <<(<<row[i], row[i + 1], row[i + 2]>>)>> \o C6_Found(row, width, i + 4)
         ELSE C6_Found(row, width, i + 1)

\* C6: the scan starts at index 0; at index i (while i+3 < width) it stops if
\* pixel i is the sentinel, else takes (pixel i, i+1, i+2) and continues at
\* i+4 if pixel i+3 is the sentinel, else continues at i+1; the returned list
\* is exactly the triplets found, left to right.
C6_TripletScan ==
    /\ tp_pc = "scan" =>
          tp_triplets \o C6_Found(TpRow, tp_image.w, tp_idx)
              = C6_Found(TpRow, tp_image.w, 0)
    /\ tp_pc = "done" => tp_triplets = C6_Found(TpRow, tp_image.w, 0)

\* two triplets returned after a pixel that was skipped
C6_Witness ==
    /\ tp_pc = "done"
    /\ Len(tp_triplets) = 2
    /\ tp_triplets[1] # tp_triplets[2]
    /\ TpRow[3] # Sentinel

------------------------------------------------------------------------------
(* Colour-Triplet Layer Splitter: process and _create_stacked_bands. *)

\* the rows discarded above the body
SkipRows == 8

\* the narrowest raster process accepts
MinWidth == 4

mapped_colors == << <<224, 248, 207>>, <<134, 192, 108>>, <<7, 24, 33>> >>

\* the if/elif chain: the index into mapped_colors, or 0 for a skipped pixel
MappedIndex(pix, triplet) ==
    IF pix = triplet[1] THEN 1
    ELSE IF pix = triplet[2] THEN 2
    ELSE IF pix = triplet[3] THEN 3
    ELSE 0

\* a source row one above the body row
SourceRowAbove(row) == row + SkipRows - 1

\* src_y
SourceRow(row) == row + SkipRows

\* the band of triplet number i (from 0) written into result_img
WriteBand(result_img, image, triplet, i, rem_height) ==
    LET band_y_offset == i * rem_height
    IN [result_img EXCEPT !.px =
           [p \in Coords(result_img.w, result_img.h) |->
               IF /\ p[2] >= band_y_offset
                  /\ p[2] < band_y_offset + rem_height
                  /\ MappedIndex(image.px[<<p[1], SourceRow(p[2] - band_y_offset)>>],
                                 triplet) # 0
               THEN mapped_colors[
                        MappedIndex(image.px[<<p[1], SourceRow(p[2] - band_y_offset)>>],
                                    triplet)]
               ELSE result_img.px[p]]]

\* the loop over the triplets, from triplet number i
RECURSIVE BandLoop(_, _, _, _, _)
BandLoop(result_img, image, triplets, i, rem_height) ==
    IF i >= Len(triplets) THEN result_img
    ELSE BandLoop(WriteBand(result_img, image, triplets[i + 1], i, rem_height),
                  image, triplets, i + 1, rem_height)

\* a result one band high whatever the number of triplets
FinalHeightOneBand(rem_height, triplets) == rem_height

\* final_height
FinalHeight(rem_height, triplets) == rem_height * Len(triplets)

_create_stacked_bands(image, triplets, width, rem_height) ==
    BandLoop(ImageNew(width, FinalHeight(rem_height, triplets), Sentinel),
             image, triplets, 0, rem_height)

\* a height check that lets an empty body through
BodyTooSmallStrict(rem_height) == rem_height < 0

\* rem_height <= 0
BodyTooSmall(rem_height) == rem_height <= 0

------------------------------------------------------------------------------
(* The layer splitter's process. *)

SpPalette == <<Red, Blue, Sentinel, Grey>>

\* a raster whose first row is `row` and whose other rows cycle SpPalette
SpRaster(row, h) ==
    [w |-> Len(row), h |-> h,
     px |-> [p \in Coords(Len(row), h) |->
                IF p[2] = 0 THEN row[p[1] + 1]
                ELSE SpPalette[((p[1] + p[2]) % 4) + 1]]]

\* the heights of the splitter's rasters: around the 8 discarded rows
SpHeights == (SkipRows - 1) .. (SkipRows + SpMaxBody)

InitSplitter ==
    /\ IdleInterleave /\ IdleTriplets /\ IdleGenerator /\ IdleDedup /\ IdleWrapper
    /\ \E w \in 1 .. SpMaxW : \E row \in [1 .. w -> TpColours] : \E h \in SpHeights :
          sp_image = SpRaster(row, h)
    /\ sp_result = NoImage
    /\ sp_error = "none"
    /\ sp_pc = "start"

\* lines 39-40
SplitRejectWidth ==
    /\ sp_pc = "start"
    /\ sp_image.w < MinWidth
    /\ sp_error' = "Image width must be at least 4 pixels to contain color triplets"
    /\ sp_pc' = "error"
    /\ UNCHANGED <<sp_image, sp_result, il_vars, tp_vars, g_vars, d_vars, w_vars>>

\* lines 43-46
SplitRejectNoTriplets ==
    /\ sp_pc = "start"
    /\ ~(sp_image.w < MinWidth)
    /\ _extract_color_triplets(sp_image, sp_image.w) = <<>>
    /\ sp_error' = "No valid color triplets found in the first row"
    /\ sp_pc' = "error"
    /\ UNCHANGED <<sp_image, sp_result, il_vars, tp_vars, g_vars, d_vars, w_vars>>

\* lines 49-51
SplitRejectHeight ==
    /\ sp_pc = "start"
    /\ ~(sp_image.w < MinWidth)
    /\ _extract_color_triplets(sp_image, sp_image.w) # <<>>
    /\ BodyTooSmall(sp_image.h - SkipRows)
    /\ sp_error' = "Image height is too small to discard 8 rows and proceed."
    /\ sp_pc' = "error"
    /\ UNCHANGED <<sp_image, sp_result, il_vars, tp_vars, g_vars, d_vars, w_vars>>

\* line 54
SplitReturn ==
    /\ sp_pc = "start"
    /\ ~(sp_image.w < MinWidth)
    /\ _extract_color_triplets(sp_image, sp_image.w) # <<>>
    /\ ~BodyTooSmall(sp_image.h - SkipRows)
    /\ sp_result' = _create_stacked_bands(sp_image,
                        _extract_color_triplets(sp_image, sp_image.w),
                        sp_image.w, sp_image.h - SkipRows)
    /\ sp_pc' = "done"
    /\ UNCHANGED <<sp_image, sp_error, il_vars, tp_vars, g_vars, d_vars, w_vars>>

NextSplitter ==
    SplitRejectWidth \/ SplitRejectNoTriplets \/ SplitRejectHeight \/ SplitReturn

SpecSplitter == InitSplitter /\ [][NextSplitter]_vars

\* the triplets of the first row of the splitter's input, as C6 describes them
SpFound == C6_Found([x \in 0 .. (sp_image.w - 1) |-> sp_image.px[<<x, 0>>]],
                    sp_image.w, 0)

\* C4: for width W >= 4, height H > 8 and T >= 1 triplets in the first row,
\* the output raster is W wide and (H - 8) * T high.
C4_OutputSize ==
    sp_pc # "start" =>
        LET T == Len(SpFound)
        IN (sp_image.w >= 4 /\ sp_image.h > 8 /\ T >= 1)
           => /\ sp_pc = "done"
              /\ sp_result.w = sp_image.w
              /\ sp_result.h = (sp_image.h - 8) * T
              /\ DOMAIN sp_result.px = Coords(sp_image.w, (sp_image.h - 8) * T)

\* two triplets and two body rows
C4_Witness ==
    /\ sp_pc = "done"
    /\ Len(SpFound) = 2
    /\ sp_image.h = 10
    /\ sp_result.h = 4

\* C5: for triplet i and body position (x, row), the output pixel at
\* (x, i*(H-8)+row) is C1 if the input pixel at (x, row+8) is the triplet's
\* 1st colour, else C2 if it is the 2nd, else C3 if it is the 3rd, else the
\* sentinel; so every output pixel that is not the sentinel is C1, C2 or C3.
C5_BandConstruction ==
    sp_pc = "done" =>
        LET found == SpFound
            body == sp_image.h - 8
        IN /\ \A i \in 0 .. (Len(found) - 1) :
                 LET t == found[i + 1]
                 IN \A x \in 0 .. (sp_image.w - 1), row \in 0 .. (body - 1) :
                       LET pix == sp_image.px[<<x, row + 8>>]
                       IN sp_result.px[<<x, i * body + row>>]
                             = (IF pix = t[1] THEN <<224, 248, 207>>
                                ELSE IF pix = t[2] THEN <<134, 192, 108>>
                                ELSE IF pix = t[3] THEN <<7, 24, 33>>
                                ELSE <<0, 255, 0>>)
           /\ \A p \in DOMAIN sp_result.px :
                 sp_result.px[p] \in
                     {<<0, 255, 0>>, <<224, 248, 207>>, <<134, 192, 108>>, <<7, 24, 33>>}

\* a second band with all three canonical colours and an untouched pixel
C5_Witness ==
    /\ sp_pc = "done"
    /\ Len(SpFound) = 2
    /\ SpFound[1] # SpFound[2]
    /\ \A c \in {<<0, 255, 0>>, <<224, 248, 207>>, <<134, 192, 108>>, <<7, 24, 33>>} :
          \E p \in DOMAIN sp_result.px :
              p[2] >= sp_image.h - 8 /\ sp_result.px[p] = c

\* C7: process raises an error and returns no raster when the width is < 4,
\* when the first row yields no triplet, or when height - 8 <= 0; in every
\* other case it returns a raster and raises nothing.
C7_Errors ==
    sp_pc # "start" =>
        LET fails == sp_image.w < 4 \/ Len(SpFound) = 0 \/ sp_image.h - 8 <= 0
        IN /\ fails => (sp_pc = "error" /\ sp_error # "none" /\ sp_result = NoImage)
           /\ ~fails => (sp_pc = "done" /\ sp_error = "none" /\ sp_result # NoImage)

\* a raster with a triplet but exactly 8 rows is refused
C7_Witness ==
    /\ sp_pc = "error"
    /\ sp_image.w >= 4
    /\ Len(SpFound) >= 1
    /\ sp_image.h = 8

------------------------------------------------------------------------------
(* Python strings, as tuples of characters. *)

\* sub in s
StrContains(s, sub) ==
    \E i \in 1 .. (Len(s) - Len(sub) + 1) : SubSeq(s, i, i + Len(sub) - 1) = sub

\* s.replace(sub, rep), sub not empty: left to right, without overlaps
RECURSIVE StrReplace(_, _, _)
StrReplace(s, sub, rep) ==
    IF Len(s) < Len(sub) THEN s
    ELSE IF SubSeq(s, 1, Len(sub)) = sub
         THEN rep \o StrReplace(SubSeq(s, Len(sub) + 1, Len(s)), sub, rep)
         ELSE <<Head(s)>> \o StrReplace(Tail(s), sub, rep)

\* s.split(sep)[-1], sep one character
RECURSIVE StrLastPart(_, _)
StrLastPart(s, sep) ==
    IF ~StrContains(s, <<sep>>) THEN s ELSE StrLastPart(Tail(s), sep)

\* s[:-n]
StrDropLast(s, n) == SubSeq(s, 1, Len(s) - n)

FlipModifier == <<"#", "f">>
S_fixed == <<"f", "i", "x", "e", "d">>
S_multi == <<"m", "u", "l", "t", "i">>
S_multi_movement ==
    <<"m", "u", "l", "t", "i", "_", "m", "o", "v", "e", "m", "e", "n", "t">>
S_TBD == <<"T", "B", "D">>
S_unnamed_sprite ==
    <<"u", "n", "n", "a", "m", "e", "d", "_", "s", "p", "r", "i", "t", "e">>
S_png == <<".", "p", "n", "g">>
S_sprite_ == <<"s", "p", "r", "i", "t", "e", "_">>

------------------------------------------------------------------------------
(* Frame/Tile Descriptor Generator: the helpers of process. *)

\* the fallback of animation_counts.get
DefaultAnimationCount == 1

\* the animation_counts dictionary, as (key, value) pairs
animation_counts ==
    { <<S_fixed, 1>>,
      <<S_multi \o FlipModifier, 3>>,
      <<S_multi, 4>>,
      <<S_multi_movement \o FlipModifier, 6>>,
      <<S_multi_movement, 8>> }

\* a table whose flipped entries have the counts of the plain ones
GetAnimationCountIgnoringFlip(state_type) ==
    LET plain == StrReplace(state_type, FlipModifier, <<>>)
    IN IF \E e \in animation_counts : e[1] = plain
       THEN (CHOOSE e \in animation_counts : e[1] = plain)[2]
       ELSE DefaultAnimationCount

\* a lookup that gives a specifier outside the table no animation
GetAnimationCountUnknownZero(state_type) ==
    IF \E e \in animation_counts : e[1] = state_type
    THEN (CHOOSE e \in animation_counts : e[1] = state_type)[2]
    ELSE 0

_get_animation_count(state_type) ==
    IF \E e \in animation_counts : e[1] = state_type
    THEN (CHOOSE e \in animation_counts : e[1] = state_type)[2]
    ELSE DefaultAnimationCount

\* a test that finds only degenerate boxes empty
IsEmptyOnlyDegenerate(image, left, upper, right, lower) ==
    left >= right \/ upper >= lower

_is_empty(image, left, upper, right, lower) ==
    IF left >= right \/ upper >= lower THEN TRUE
    ELSE LET cropped == ImageCrop(image, left, upper, right, lower)
         IN \A p \in DOMAIN cropped.px : cropped.px[p] = Sentinel

\* the concatenation of a list of lists
RECURSIVE Flatten(_)
Flatten(lists) ==
    IF lists = <<>> THEN <<>> ELSE Head(lists) \o Flatten(Tail(lists))

\* the uuid4 drawn for the object at `path` of the descriptor by invocation
\* `run` of process: no two draws give the same value
NewId(run, path) == <<"uuid", run>> \o path

\* no compensation, however wide the frame
HCompensationNone(hor_tiles_per_frame) == 0

\* h_compensation
HCompensation(hor_tiles_per_frame) ==
    IF hor_tiles_per_frame <= 2 THEN 0 ELSE (hor_tiles_per_frame - 2) * (-4)

\* a tile whose slice row does not depend on its layer
NewTileLayersShareRow(run, cfg, frame_index, state_offset, animation_index, num_tiles, state_index, v_tile_index, h_tile_index, layer_index) ==
    LET h_px_index == (h_tile_index + frame_index * cfg.htiles) * cfg.twidth
        v_px_index == (state_offset
                       + cfg.vtiles * Len(cfg.palettes) * animation_index
                       + v_tile_index) * cfg.theight
    IN [comment |-> [item |-> num_tiles, state |-> state_index,
                     anim |-> animation_index, frame |-> frame_index,
                     tile |-> (v_tile_index * cfg.htiles + h_tile_index)
                                  * Len(cfg.palettes) + layer_index,
                     layer |-> layer_index],
        id |-> NewId(run, <<state_index, animation_index, frame_index,
                                 v_tile_index, h_tile_index, layer_index>>),
        x |-> h_tile_index * cfg.twidth + (IF cfg.htiles <= 2 THEN 0 ELSE (cfg.htiles - 2) * (-4)),
        y |-> v_tile_index * cfg.theight,
        sliceX |-> h_px_index,
        sliceY |-> v_px_index,
        palette |-> 0,
        flipX |-> FALSE,
        flipY |-> FALSE,
        objPalette |-> "OBP0",
        paletteIndex |-> cfg.palettes[layer_index + 1],
        priority |-> FALSE]

\* the tile dictionary built in the innermost loop
NewTile(run, cfg, frame_index, state_offset, animation_index, num_tiles, state_index, v_tile_index, h_tile_index, layer_index) ==
    LET h_px_index == (h_tile_index + frame_index * cfg.htiles) * cfg.twidth
        v_px_index == (state_offset
                       + cfg.vtiles * Len(cfg.palettes) * animation_index
                       + cfg.vtiles * layer_index
                       + v_tile_index) * cfg.theight
    IN [comment |-> [item |-> num_tiles, state |-> state_index,
                     anim |-> animation_index, frame |-> frame_index,
                     tile |-> (v_tile_index * cfg.htiles + h_tile_index)
                                  * Len(cfg.palettes) + layer_index,
                     layer |-> layer_index],
        id |-> NewId(run, <<state_index, animation_index, frame_index,
                                 v_tile_index, h_tile_index, layer_index>>),
        x |-> h_tile_index * cfg.twidth + HCompensation(cfg.htiles),
        y |-> v_tile_index * cfg.theight,
        sliceX |-> h_px_index,
        sliceY |-> v_px_index,
        palette |-> 0,
        flipX |-> FALSE,
        flipY |-> FALSE,
        objPalette |-> "OBP0",
        paletteIndex |-> cfg.palettes[layer_index + 1],
        priority |-> FALSE]

\* the three nested loops: vertical, horizontal, layer
_create_frame_tiles(run, cfg, frame_index, state_offset, animation_index, num_tiles, state_index) ==
    Flatten([v \in 1 .. cfg.vtiles |->
        Flatten([h \in 1 .. cfg.htiles |->
            [l \in 1 .. Len(cfg.palettes) |->
                NewTile(run, cfg, frame_index, state_offset, animation_index,
                        num_tiles, state_index, v - 1, h - 1, l - 1)]])])

\* a check that one empty tile satisfies
FrameIsEmptyAnyTile(cfg, image, tiles) ==
    \E k \in 1 .. Len(tiles) :
        _is_empty(image, tiles[k].sliceX, tiles[k].sliceY,
                  tiles[k].sliceX + cfg.twidth, tiles[k].sliceY + cfg.theight)

\* the check of lines 219-221
FrameIsEmpty(cfg, image, tiles) ==
    \A k \in 1 .. Len(tiles) :
        _is_empty(image, tiles[k].sliceX, tiles[k].sliceY,
                  tiles[k].sliceX + cfg.twidth, tiles[k].sliceY + cfg.theight)


\* a retained frame that counts as one tile
RetainFrameOneTile(acc, frame) ==
    [frames |-> Append(acc.frames, frame),
     numFrames |-> acc.numFrames,
     numTiles |-> acc.numTiles + 1]

\* lines 224-225: the else branch
RetainFrame(acc, frame) ==
    [frames |-> Append(acc.frames, frame),
     numFrames |-> acc.numFrames,
     numTiles |-> acc.numTiles + Len(frame.tiles)]

\* the loop over frame_index, from frame_index on; acc holds the animation's
\* frames and the running data['numFrames'] and data['numTiles']
RECURSIVE FrameLoop(_, _, _, _, _, _, _, _, _)
FrameLoop(run, cfg, image, max_frames, state_offset, state_index, animation_index, frame_index, acc) ==
    IF frame_index >= max_frames THEN acc
    ELSE LET counted == [acc EXCEPT !.numFrames = acc.numFrames + 1]
             tiles == _create_frame_tiles(run, cfg, frame_index, state_offset,
                                          animation_index, acc.numTiles, state_index)
             frame == [id |-> NewId(run, <<state_index, animation_index, frame_index>>),
                       tiles |-> tiles]
         IN IF FrameIsEmpty(cfg, image, tiles) THEN counted
            ELSE FrameLoop(run, cfg, image, max_frames, state_offset, state_index,
                           animation_index, frame_index + 1,
                           RetainFrame(counted, frame))

\* the loop over animation_index, from animation_index on; acc holds the
\* state's animations and the running counters
RECURSIVE AnimationLoop(_, _, _, _, _, _, _, _, _)
AnimationLoop(run, cfg, image, max_frames, state_offset, state_index, anim_count, animation_index, acc) ==
    IF animation_index >= anim_count THEN acc
    ELSE LET done == FrameLoop(run, cfg, image, max_frames, state_offset, state_index,
                               animation_index, 0,
                               [frames |-> <<>>, numFrames |-> acc.numFrames,
                                numTiles |-> acc.numTiles])
             animation == [id |-> NewId(run, <<state_index, animation_index>>),
                           frames |-> done.frames]
         IN AnimationLoop(run, cfg, image, max_frames, state_offset, state_index,
                          anim_count, animation_index + 1,
                          [animations |-> Append(acc.animations, animation),
                           numFrames |-> done.numFrames,
                           numTiles |-> done.numTiles])

\* name
SpriteName(fname) ==
    IF fname # S_TBD THEN StrDropLast(StrLastPart(fname, "\\"), 4)
    ELSE S_unnamed_sprite

\* max_frames
MaxFrames(cfg, img_width) == img_width \div (cfg.htiles * cfg.twidth)

\* a base structure whose bounds are those of the raster
BaseJsonBoundsOfRaster(run, name, checksum, img_width, img_height, hor_tiles_per_frame, vert_tiles_per_frame, tile_width, tile_height) ==
    [resourceType |-> "sprite",
     id |-> NewId(run, <<>>),
     name |-> name,
     symbol |-> S_sprite_ \o StrReplace(name, <<" ">>, <<"_">>),
     numFrames |-> 0,
     filename |-> name \o S_png,
     checksum |-> checksum,
     width |-> img_width,
     height |-> img_height,
     states |-> <<>>,
     numTiles |-> 0,
     canvasWidth |-> hor_tiles_per_frame * tile_width,
     canvasHeight |-> vert_tiles_per_frame * tile_height,
     boundsX |-> 0,
     boundsY |-> 0,
     boundsWidth |-> img_width,
     boundsHeight |-> img_height,
     animSpeed |-> 15]

_create_base_json_structure(run, name, checksum, img_width, img_height, hor_tiles_per_frame, vert_tiles_per_frame, tile_width, tile_height) ==
    [resourceType |-> "sprite",
     id |-> NewId(run, <<>>),
     name |-> name,
     symbol |-> S_sprite_ \o StrReplace(name, <<" ">>, <<"_">>),
     numFrames |-> 0,
     filename |-> name \o S_png,
     checksum |-> checksum,
     width |-> img_width,
     height |-> img_height,
     states |-> <<>>,
     numTiles |-> 0,
     canvasWidth |-> hor_tiles_per_frame * tile_width,
     canvasHeight |-> vert_tiles_per_frame * tile_height,
     boundsX |-> 0,
     boundsY |-> 0,
     boundsWidth |-> hor_tiles_per_frame * tile_width,
     boundsHeight |-> vert_tiles_per_frame * tile_height,
     animSpeed |-> 15]

_create_state(run, state_index, state_type, flip_left) ==
    [id |-> NewId(run, <<state_index>>),
     name |-> <<"state_", state_index>>,
     animationType |-> state_type,
     flipLeft |-> flip_left,
     animations |-> <<>>]

------------------------------------------------------------------------------
(* The generator's process, one step per validation, per state and per    *)
(* return.                                                                 *)

\* rasters of sentinel background with at most two red pixels
GRaster(w, h, ink) ==
    [w |-> w, h |-> h,
     px |-> [p \in Coords(w, h) |-> IF p \in ink THEN Red ELSE Sentinel]]

GInks(w, h) == {{}} \cup { {a, b} : a \in Coords(w, h), b \in Coords(w, h) }

\* the state specifiers: the five of animation_counts and two outside it
GSpecifiers ==
    { S_fixed, S_multi \o FlipModifier, S_multi, S_multi_movement \o FlipModifier,
      S_multi_movement, S_fixed \o FlipModifier, <<"j", "u", "m", "p">> }

GStateLists ==
    { <<a>> : a \in GSpecifiers }
    \cup { <<a, b>> : a \in {S_fixed, S_multi \o FlipModifier},
                      b \in {S_fixed, S_multi} }

GFileName == <<"d", "\\", "a", " ", "b">> \o S_png

\* the parameters one tile wide and high, one tile per frame, one layer
GBaseParams ==
    [fname |-> S_TBD, chksum |-> "TBD", twidth |-> 1, theight |-> 1,
     states |-> <<S_fixed>>, htiles |-> 1, vtiles |-> 1, palettes |-> <<"1">>]

GValidParams ==
    [fname : {S_TBD}, chksum : {"TBD"}, twidth : 1 .. 2, theight : 1 .. 2,
     states : GStateLists, htiles : 1 .. 3, vtiles : 1 .. 2,
     palettes : {<<"1">>, <<"1", "2">>}]

\* the valid parameters that differ from GBaseParams in at most two places,
\* and GBaseParams with one invalid value or with a file name
GParams ==
    { c \in GValidParams :
        Cardinality({ k \in DOMAIN GBaseParams : c[k] # GBaseParams[k] }) <= 2 }
    \cup { [GBaseParams EXCEPT !.twidth = 0], [GBaseParams EXCEPT !.theight = 0],
           [GBaseParams EXCEPT !.htiles = 0], [GBaseParams EXCEPT !.vtiles = 0],
           [GBaseParams EXCEPT !.palettes = <<"">>],
           [GBaseParams EXCEPT !.palettes = <<"2", "">>],
           [GBaseParams EXCEPT !.fname = GFileName] }

InitGenerator ==
    /\ IdleInterleave /\ IdleTriplets /\ IdleSplitter /\ IdleDedup /\ IdleWrapper
    /\ \E w \in 1 .. GMaxW, h \in 1 .. GMaxH : \E ink \in GInks(w, h) :
          g_image = GRaster(w, h, ink)
    /\ g_params \in GParams
    /\ g_run = 0
    /\ g_first = <<>>
    /\ g_local = NoImage
    /\ g_data = <<>>
    /\ g_state_offset = 0
    /\ g_state_index = 0
    /\ g_error = "none"
    /\ g_result = <<>>
    /\ g_pc = "start"

\* layer_palettes is empty or has a blank entry
PalettesInvalid(layer_palettes) ==
    layer_palettes = <<>> \/ \E k \in 1 .. Len(layer_palettes) : layer_palettes[k] = ""

\* checks that leave the palettes out
ValidationErrorNoPalettes(cfg) ==
    IF cfg.twidth <= 0 \/ cfg.theight <= 0 THEN "Tile dimensions must be positive"
    ELSE IF cfg.htiles <= 0 \/ cfg.vtiles <= 0 THEN "Tiles per frame must be positive"
    ELSE "none"

\* lines 163-168: the first check that fails, or "none"
ValidationError(cfg) ==
    IF cfg.twidth <= 0 \/ cfg.theight <= 0 THEN "Tile dimensions must be positive"
    ELSE IF cfg.htiles <= 0 \/ cfg.vtiles <= 0 THEN "Tiles per frame must be positive"
    ELSE IF PalettesInvalid(cfg.palettes)
         THEN "At least one layer palette must be specified"
    ELSE "none"

\* lines 163-168, a check failing
ProcessReject ==
    /\ g_pc = "start"
    /\ ValidationError(g_params) # "none"
    /\ g_error' = ValidationError(g_params)
    /\ g_pc' = "error"
    /\ UNCHANGED <<g_run, g_first, g_image, g_params, g_local, g_data, g_state_offset,
                   g_state_index, g_result, il_vars, tp_vars, sp_vars, d_vars, w_vars>>

\* lines 163-181: the checks pass and the raster is interleaved
ProcessInterleave ==
    /\ g_pc = "start"
    /\ ValidationError(g_params) = "none"
    /\ g_local' = interleave(g_image, g_params.theight, g_params.vtiles)
    /\ g_pc' = "interleaved"
    /\ UNCHANGED <<g_run, g_first, g_image, g_params, g_data, g_state_offset, g_state_index,
                   g_error, g_result, il_vars, tp_vars, sp_vars, d_vars, w_vars>>

\* lines 184-186
ProcessRejectWidth ==
    /\ g_pc = "interleaved"
    /\ MaxFrames(g_params, g_image.w) <= 0
    /\ g_error' = "Image width is too small for the specified tile configuration"
    /\ g_pc' = "error"
    /\ UNCHANGED <<g_run, g_first, g_image, g_params, g_local, g_data, g_state_offset,
                   g_state_index, g_result, il_vars, tp_vars, sp_vars, d_vars, w_vars>>

\* a start of the state loop from the offset the last invocation left
ProcessBaseKeepingOffset ==
    /\ g_pc = "interleaved"
    /\ ~(MaxFrames(g_params, g_image.w) <= 0)
    /\ g_data' = _create_base_json_structure(
                     g_run, SpriteName(g_params.fname), g_params.chksum,
                     g_image.w, g_image.h, g_params.htiles, g_params.vtiles,
                     g_params.twidth, g_params.theight)
    /\ g_state_index' = 0
    /\ g_pc' = "states"
    /\ UNCHANGED <<g_run, g_first, g_image, g_params, g_local, g_state_offset,
                   g_error, g_result, il_vars, tp_vars, sp_vars, d_vars, w_vars>>

\* lines 184-193
ProcessBase ==
    /\ g_pc = "interleaved"
    /\ ~(MaxFrames(g_params, g_image.w) <= 0)
    /\ g_data' = _create_base_json_structure(
                     g_run, SpriteName(g_params.fname), g_params.chksum,
                     g_image.w, g_image.h, g_params.htiles, g_params.vtiles,
                     g_params.twidth, g_params.theight)
    /\ g_state_offset' = 0
    /\ g_state_index' = 0
    /\ g_pc' = "states"
    /\ UNCHANGED <<g_run, g_first, g_image, g_params, g_local, g_error, g_result,
                   il_vars, tp_vars, sp_vars, d_vars, w_vars>>

\* rows of tiles reserved for one animation only
StateRowsOneAnimation(cfg, anim_count) == cfg.vtiles * Len(cfg.palettes)

\* line 230: the rows of tiles a state of anim_count animations reserves
StateRows(cfg, anim_count) == cfg.vtiles * Len(cfg.palettes) * anim_count

\* lines 194-230: the iteration of the loop over state_types for state_index,
\* from the descriptor `data` and the offset `state_offset` reached before it
StateIteration(run, cfg, image, max_frames, state_index, state_offset, data) ==
    LET state_type == cfg.states[state_index + 1]
        anim_count == _get_animation_count(state_type)
        flip_left == StrContains(state_type, FlipModifier)
        clean_state_type == StrReplace(state_type, FlipModifier, <<>>)
        state == _create_state(run, state_index, clean_state_type, flip_left)
        done == AnimationLoop(run, cfg, image, max_frames, state_offset,
                              state_index, anim_count, 0,
                              [animations |-> <<>>,
                               numFrames |-> data.numFrames,
                               numTiles |-> data.numTiles])
    IN [data |-> [data EXCEPT
                     !.states = Append(@, [state EXCEPT
                                              !.animations = done.animations]),
                     !.numFrames = done.numFrames,
                     !.numTiles = done.numTiles],
        state_offset |-> state_offset + StateRows(cfg, anim_count)]

\* lines 194-230: one iteration of the loop over state_types
ProcessState ==
    /\ g_pc = "states"
    /\ g_state_index < Len(g_params.states)
    /\ LET next == StateIteration(g_run, g_params, g_local,
                                  MaxFrames(g_params, g_image.w), g_state_index,
                                  g_state_offset, g_data)
       IN /\ g_data' = next.data
          /\ g_state_offset' = next.state_offset
    /\ g_state_index' = g_state_index + 1
    /\ UNCHANGED <<g_run, g_first, g_image, g_params, g_local, g_error, g_result, g_pc,
                   il_vars, tp_vars, sp_vars, d_vars, w_vars>>

\* lines 232-233
ProcessReturn ==
    /\ g_pc = "states"
    /\ g_state_index >= Len(g_params.states)
    /\ g_result' = [image |-> g_local, extra_data |-> g_data]
    /\ g_pc' = "done"
    /\ UNCHANGED <<g_run, g_first, g_image, g_params, g_local, g_data, g_state_offset,
                   g_state_index, g_error, il_vars, tp_vars, sp_vars, d_vars, w_vars>>

\* the caller invokes process once more with the same raster and parameters;
\* nothing of the first invocation is handed to the second
ProcessAgain ==
    /\ g_pc \in {"done", "error"}
    /\ g_run = 0
    /\ g_first' = [error |-> g_error, result |-> g_result]
    /\ g_run' = 1
    /\ g_pc' = "start"
    /\ UNCHANGED <<g_image, g_params, g_local, g_data, g_state_offset,
                   g_state_index, g_error, g_result,
                   il_vars, tp_vars, sp_vars, d_vars, w_vars>>

NextGenerator ==
    \/ ProcessReject
    \/ ProcessInterleave
    \/ ProcessRejectWidth
    \/ ProcessBase
    \/ ProcessState
    \/ ProcessReturn

SpecGenerator == InitGenerator /\ [][NextGenerator]_vars

\* the parameters that differ from GBaseParams in at most one place
GRerunParams ==
    { c \in GParams :
        Cardinality({ k \in DOMAIN GBaseParams : c[k] # GBaseParams[k] }) <= 1 }

InitRerun ==
    /\ InitGenerator
    /\ g_params \in GRerunParams

NextRerun ==
    \/ NextGenerator
    \/ ProcessAgain

\* process invoked twice on the same raster with the same parameters
SpecRerun == InitRerun /\ [][NextRerun]_vars


\* the animations of a descriptor, in document order
AllAnimations(data) ==
    Flatten([i \in 1 .. Len(data.states) |-> data.states[i].animations])

\* the retained frames of a descriptor, in document order
AllFrames(data) ==
    LET anims == AllAnimations(data)
    IN Flatten([i \in 1 .. Len(anims) |-> anims[i].frames])

\* the tiles of the retained frames of a descriptor, in document order
AllTiles(data) ==
    LET frames == AllFrames(data)
    IN Flatten([i \in 1 .. Len(frames) |-> frames[i].tiles])

\* C8: the descriptor's numFrames equals the number of frames retained
\* (appended) across all animations of all states.
C8_NumFrames ==
    g_pc = "done" =>
        g_result.extra_data.numFrames = Len(AllFrames(g_result.extra_data))

\* C9: numTiles equals the number of tiles in retained frames, which is
\* (retained frames) * verticalTilesPerFrame * horizontalTilesPerFrame *
\* layerCount; the running counter agrees after every state.
C9_NumTiles ==
    g_pc \in {"states", "done"} =>
        /\ g_data.numTiles = Len(AllTiles(g_data))
        /\ g_data.numTiles = Len(AllFrames(g_data)) * g_params.vtiles
                                 * g_params.htiles * Len(g_params.palettes)
        /\ g_pc = "done" => g_result.extra_data.numTiles = g_data.numTiles

\* frames of several tiles retained beside an animation trimmed to nothing
C9_Witness ==
    /\ g_pc = "done"
    /\ g_params.htiles * g_params.vtiles * Len(g_params.palettes) > 1
    /\ Len(AllFrames(g_data)) >= 2
    /\ \E i \in 1 .. Len(AllAnimations(g_data)) :
          AllAnimations(g_data)[i].frames = <<>>

\* the animation count C10 gives for a specifier of its table, 0 for others
C10_Count(specifier) ==
    CASE specifier = <<"f", "i", "x", "e", "d">> -> 1
      [] specifier = <<"m", "u", "l", "t", "i", "#", "f">> -> 3
      [] specifier = <<"m", "u", "l", "t", "i">> -> 4
      [] specifier = <<"m", "u", "l", "t", "i", "_", "m", "o", "v", "e", "m", "e",
                       "n", "t", "#", "f">> -> 6
      [] specifier = <<"m", "u", "l", "t", "i", "_", "m", "o", "v", "e", "m", "e",
                       "n", "t">> -> 8
      [] OTHER -> 0

\* C10: the descriptor has one state per specifier, in declared order, and a
\* state whose specifier is fixed / multi+flip / multi / multi_movement+flip /
\* multi_movement has exactly 1 / 3 / 4 / 6 / 8 animations, whatever the
\* raster holds and however many frames each animation retains.
C10_AnimationCount ==
    g_pc = "done" =>
        LET states == g_result.extra_data.states
        IN /\ Len(states) = Len(g_params.states)
           /\ \A i \in 1 .. Len(states) :
                 /\ states[i].name = <<"state_", i - 1>>
                 /\ states[i].id = NewId(g_run, <<i - 1>>)
                 /\ C10_Count(g_params.states[i]) # 0
                       => Len(states[i].animations) = C10_Count(g_params.states[i])

\* two states, the first with three animations of which one kept no frame
\* and one kept some
C10_Witness ==
    /\ g_pc = "done"
    /\ Len(g_result.extra_data.states) = 2
    /\ LET anims == g_result.extra_data.states[1].animations
       IN /\ Len(anims) = 3
          /\ \E i \in 1 .. 3 : anims[i].frames = <<>>
          /\ \E i \in 1 .. 3 : anims[i].frames # <<>>


\* C11: every tile of every retained frame has its slice rectangle
\* [sliceX, sliceX + tileWidth) x [sliceY, sliceY + tileHeight) inside the
\* raster.
C11_SliceBounds ==
    g_pc = "done" =>
        LET tiles == AllTiles(g_result.extra_data)
        IN \A k \in 1 .. Len(tiles) :
              /\ 0 <= tiles[k].sliceX
              /\ tiles[k].sliceX + g_params.twidth <= g_image.w
              /\ 0 <= tiles[k].sliceY
              /\ tiles[k].sliceY + g_params.theight <= g_image.h


------------------------------------------------------------------------------
(* The generator's process as one call, for the components that consume   *)
(* its result.                                                             *)

\* lines 193-230: the loop over state_types, from state_index on
RECURSIVE StateLoop(_, _, _, _, _, _, _)
StateLoop(run, cfg, image, max_frames, state_index, state_offset, data) ==
    IF state_index >= Len(cfg.states) THEN data
    ELSE LET next == StateIteration(run, cfg, image, max_frames, state_index,
                                    state_offset, data)
         IN StateLoop(run, cfg, image, max_frames, state_index + 1,
                      next.state_offset, next.data)

\* process(image, params) of the generator: the error raised, or the raster
\* returned and the extra_data attached to it
GeneratorProcess(run, image, cfg) ==
    LET local == interleave(image, cfg.theight, cfg.vtiles)
        max_frames == MaxFrames(cfg, image.w)
    IN IF ValidationError(cfg) # "none"
       THEN [error |-> ValidationError(cfg)]
       ELSE IF max_frames <= 0
       THEN [error |-> "Image width is too small for the specified tile configuration"]
       ELSE [error |-> "none",
             image |-> local,
             extra_data |->
                 StateLoop(run, cfg, local, max_frames, 0, 0,
                           _create_base_json_structure(
                               run, SpriteName(cfg.fname), cfg.chksum,
                               image.w, image.h, cfg.htiles, cfg.vtiles,
                               cfg.twidth, cfg.theight))]

\* the step-by-step process returns what the one-call process returns
GeneratorAgrees ==
    /\ g_pc = "done" =>
          LET out == GeneratorProcess(g_run, g_image, g_params)
          IN /\ out.error = "none"
             /\ g_result = [image |-> out.image, extra_data |-> out.extra_data]
    /\ g_pc = "error" => GeneratorProcess(g_run, g_image, g_params).error = g_error


------------------------------------------------------------------------------
(* Tile Deduplicator: tile_deduplication.process.                          *)

\* tile_width and tile_height, fixed in the loop body
DedupTileWidth == 8
DedupTileHeight == 16

\* the largest box coordinate PIL's crop accepts (a C int); beyond it the
\* call raises
CIntMax == 2147483647

\* d.get(key, default)
DictGet(d, key, default) == IF key \in DOMAIN d THEN d[key] ELSE default

\* the value of `d` with d[key] = value
DictSet(d, key, value) ==
    [k \in DOMAIN d \cup {key} |-> IF k = key THEN value ELSE d[k]]

\* the (state, animation, frame, tile) positions the four nested loops
\* visit, in the order they visit them, each index counted from 1
TilePaths(data) ==
    LET states == data.states
    IN Flatten([s \in 1 .. Len(states) |->
         LET anims == DictGet(states[s], "animations", <<>>)
         IN Flatten([a \in 1 .. Len(anims) |->
              LET frames == DictGet(anims[a], "frames", <<>>)
              IN Flatten([f \in 1 .. Len(frames) |->
                   LET tiles == DictGet(frames[f], "tiles", <<>>)
                   IN [t \in 1 .. Len(tiles) |-> <<s, a, f, t>>]])])])

TileAt(data, p) ==
    data.states[p[1]].animations[p[2]].frames[p[3]].tiles[p[4]]

\* an update that takes the tile at p out of its frame
DropTile(data, p, tile) ==
    [data EXCEPT !.states[p[1]].animations[p[2]].frames[p[3]].tiles =
        [i \in 1 .. (Len(@) - 1) |-> IF i < p[4] THEN @[i] ELSE @[i + 1]]]

\* the in-place update of the tile dictionary at p
SetTile(data, p, tile) ==
    [data EXCEPT !.states[p[1]].animations[p[2]].frames[p[3]].tiles[p[4]] = tile]

\* image.crop((left, upper, left + width, upper + height)) raises instead of
\* returning a raster: a coordinate of the box is no C int
CropRaises(left, upper, width, height) ==
    \/ left > CIntMax - width \/ upper > CIntMax - height
    \/ left < -CIntMax \/ upper < -CIntMax

\* tile_img.tobytes(): the pixels row by row
ToBytes(img) ==
    [k \in 1 .. img.w * img.h |-> img.px[<<(k - 1) % img.w, (k - 1) \div img.w>>]]

\* the digest of the pixel bytes: equal bytes give equal digests, and no two
\* byte strings met in one pass collide
_create_tile_hash(tile_img) == <<"md5", ToBytes(tile_img)>>

\* a reference that takes the first occurrence's id and keeps its own slice
ReplaceKeepingSlice(duplicate_tile, first_tile) ==
    DictSet(DictSet(DictSet(DictSet(duplicate_tile,
        "original_id", DictGet(duplicate_tile, "id", "None")),
        "id", first_tile.id),
        "deduplicated", TRUE),
        "references", first_tile.id)

\* a reference whose shadow fields are written after the overwrite
ReplaceThenShadow(duplicate_tile, first_tile) ==
    LET replaced ==
            DictSet(DictSet(DictSet(duplicate_tile,
                "id", first_tile.id),
                "sliceX", first_tile.sliceX),
                "sliceY", first_tile.sliceY)
        shadowed ==
            DictSet(DictSet(DictSet(replaced,
                "original_id", DictGet(replaced, "id", "None")),
                "original_sliceX", DictGet(replaced, "sliceX", "None")),
                "original_sliceY", DictGet(replaced, "sliceY", "None"))
    IN DictSet(DictSet(shadowed, "deduplicated", TRUE), "references", first_tile.id)

\* lines 124-134; `first_tile` is the tile_hashes entry of the first occurrence
_replace_tile_with_reference(duplicate_tile, first_tile) ==
    LET shadowed ==
            DictSet(DictSet(DictSet(duplicate_tile,
                "original_id", DictGet(duplicate_tile, "id", "None")),
                "original_sliceX", DictGet(duplicate_tile, "sliceX", "None")),
                "original_sliceY", DictGet(duplicate_tile, "sliceY", "None"))
        replaced ==
            DictSet(DictSet(DictSet(shadowed,
                "id", first_tile.id),
                "sliceX", first_tile.sliceX),
                "sliceY", first_tile.sliceY)
    IN DictSet(DictSet(replaced, "deduplicated", TRUE), "references", first_tile.id)


\* rasters are at most DMaxBlocks blocks of DedupTileWidth x DedupTileHeight
\* pixels, each block of one colour
DMaxBlocks == 4

DColours == {Sentinel, Red}

DShapes ==
    { b \in (1 .. DMaxBlocks) \X (1 .. DMaxBlocks) : b[1] * b[2] <= DMaxBlocks }

DRaster(bw, bh, colouring) ==
    [w |-> bw * DedupTileWidth, h |-> bh * DedupTileHeight,
     px |-> [p \in Coords(bw * DedupTileWidth, bh * DedupTileHeight) |->
                colouring[<<p[1] \div DedupTileWidth, p[2] \div DedupTileHeight>>]]]

\* the default parameters of the generator
DBaseParams ==
    [fname |-> S_TBD, chksum |-> "TBD", twidth |-> 8, theight |-> 16,
     states |-> <<S_fixed>>, htiles |-> 1, vtiles |-> 1, palettes |-> <<"1">>]

\* the default parameters, and the default parameters with one of them changed
DParams ==
    { DBaseParams,
      [DBaseParams EXCEPT !.states = <<S_multi \o FlipModifier>>],
      [DBaseParams EXCEPT !.states = <<S_fixed, S_fixed>>],
      [DBaseParams EXCEPT !.palettes = <<"1", "2">>],
      [DBaseParams EXCEPT !.htiles = 2],
      [DBaseParams EXCEPT !.vtiles = 2],
      [DBaseParams EXCEPT !.theight = 8],
      [DBaseParams EXCEPT !.twidth = 16] }

\* what a caller may have done to extra_data before the pass
DDamages ==
    { <<"none", 0>>, <<"unreadable", 1>>, <<"unreadable", 2>>, <<"no id", 1>>,
      <<"no states", 0>>, <<"no extra_data", 0>> }

Damage(data, damage) ==
    LET paths == TilePaths(data)
        k == damage[2]
    IN CASE damage[1] = "none" -> data
         [] damage[1] = "unreadable" ->
              IF k > Len(paths) THEN data
              ELSE SetTile(data, paths[k],
                           [TileAt(data, paths[k]) EXCEPT !.sliceX = CIntMax])
         [] damage[1] = "no id" ->
              IF k > Len(paths) THEN data
              ELSE LET tile == TileAt(data, paths[k])
                   IN SetTile(data, paths[k],
                              [f \in DOMAIN tile \ {"id"} |-> tile[f]])
         [] damage[1] = "no states" ->
              [f \in DOMAIN data \ {"states"} |-> data[f]]
         [] damage[1] = "no extra_data" -> <<>>

InitDedup ==
    /\ IdleInterleave /\ IdleTriplets /\ IdleSplitter /\ IdleGenerator /\ IdleWrapper
    /\ \E b \in DShapes : \E colouring \in [(0 .. b[1] - 1) \X (0 .. b[2] - 1) -> DColours] :
       \E cfg \in DParams : \E damage \in DDamages :
          LET out == GeneratorProcess(0, DRaster(b[1], b[2], colouring), cfg)
          IN /\ damage[1] # "none" => cfg = DBaseParams
             /\ out.error = "none"
             /\ d_image = out.image
             /\ d_cfg = cfg
             /\ d_data = Damage(out.extra_data, damage)
    /\ d_before = d_data
    /\ d_pos = 0
    /\ d_tile_hashes = <<>>
    /\ d_tile_replacements = <<>>
    /\ d_total_tiles = 0
    /\ d_duplicate_tiles = 0
    /\ d_pass = 0
    /\ d_pc = "start"

\* lines 20-25: there is nothing to deduplicate
NothingToDo(extra_data) ==
    DOMAIN extra_data = {} \/ "states" \notin DOMAIN extra_data

\* lines 20-25, returning early
DedupReturnEarly ==
    /\ d_pc = "start"
    /\ NothingToDo(d_data)
    /\ d_pass' = d_pass + 1
    /\ d_pc' = "done"
    /\ UNCHANGED <<d_image, d_cfg, d_before, d_data, d_pos, d_tile_hashes,
                   d_tile_replacements, d_total_tiles, d_duplicate_tiles,
                   il_vars, tp_vars, sp_vars, g_vars, w_vars>>

\* lines 20-32
DedupBegin ==
    /\ d_pc = "start"
    /\ ~NothingToDo(d_data)
    /\ d_tile_hashes' = <<>>
    /\ d_tile_replacements' = <<>>
    /\ d_total_tiles' = 0
    /\ d_duplicate_tiles' = 0
    /\ d_pos' = 0
    /\ d_pc' = "tiles"
    /\ UNCHANGED <<d_image, d_cfg, d_before, d_data, d_pass,
                   il_vars, tp_vars, sp_vars, g_vars, w_vars>>

\* lines 35-74: the body of the innermost loop, for the next tile.  The
\* tile_hashes entry also holds tile_img, which is never read and is left out.
DedupTile ==
    /\ d_pc = "tiles"
    /\ d_pos < Len(TilePaths(d_data))
    /\ LET p == TilePaths(d_data)[d_pos + 1]
           tile == TileAt(d_data, p)
           total_tiles == d_total_tiles + 1
           tile_id == DictGet(tile, "id", <<"tile_", total_tiles>>)
           slice_x == DictGet(tile, "sliceX", 0)
           slice_y == DictGet(tile, "sliceY", 0)
       IN /\ d_total_tiles' = total_tiles
          /\ IF CropRaises(slice_x, slice_y, DedupTileWidth, DedupTileHeight)
             THEN UNCHANGED <<d_data, d_tile_hashes, d_tile_replacements,
                              d_duplicate_tiles>>
             ELSE LET tile_img == ImageCrop(d_image, slice_x, slice_y,
                                            slice_x + DedupTileWidth,
                                            slice_y + DedupTileHeight)
                      tile_hash == _create_tile_hash(tile_img)
                  IN IF tile_hash \in DOMAIN d_tile_hashes
                     THEN /\ d_duplicate_tiles' = d_duplicate_tiles + 1
                          /\ d_tile_replacements' =
                                 DictSet(d_tile_replacements, tile_id,
                                         d_tile_hashes[tile_hash].id)
                          /\ d_data' = SetTile(d_data, p,
                                 _replace_tile_with_reference(
                                     tile, d_tile_hashes[tile_hash]))
                          /\ UNCHANGED d_tile_hashes
                     ELSE /\ d_tile_hashes' =
                                 DictSet(d_tile_hashes, tile_hash,
                                         [id |-> tile_id, sliceX |-> slice_x,
                                          sliceY |-> slice_y])
                          /\ UNCHANGED <<d_data, d_tile_replacements,
                                         d_duplicate_tiles>>
    /\ d_pos' = d_pos + 1
    /\ UNCHANGED <<d_image, d_cfg, d_before, d_pass, d_pc,
                   il_vars, tp_vars, sp_vars, g_vars, w_vars>>

\* lines 77-90
DedupFinish ==
    /\ d_pc = "tiles"
    /\ d_pos >= Len(TilePaths(d_data))
    /\ d_data' = DictSet(d_data, "deduplication",
                         [total_tiles |-> d_total_tiles,
                          unique_tiles |-> Cardinality(DOMAIN d_tile_hashes),
                          duplicate_tiles |-> d_duplicate_tiles,
                          memory_saved |-> d_duplicate_tiles,
                          tile_replacements |-> d_tile_replacements])
    /\ d_pass' = d_pass + 1
    /\ d_pc' = "done"
    /\ UNCHANGED <<d_image, d_cfg, d_before, d_pos, d_tile_hashes,
                   d_tile_replacements, d_total_tiles, d_duplicate_tiles,
                   il_vars, tp_vars, sp_vars, g_vars, w_vars>>

\* the caller passes the returned image to process once more
DedupAgain ==
    /\ d_pc = "done"
    /\ d_pass = 1
    /\ d_before' = d_data
    /\ d_pc' = "start"
    /\ UNCHANGED <<d_image, d_cfg, d_data, d_pos, d_tile_hashes,
                   d_tile_replacements, d_total_tiles, d_duplicate_tiles, d_pass,
                   il_vars, tp_vars, sp_vars, g_vars, w_vars>>

NextDedup ==
    \/ DedupReturnEarly
    \/ DedupBegin
    \/ DedupTile
    \/ DedupFinish
    \/ DedupAgain

SpecDedup == InitDedup /\ [][NextDedup]_vars


\* extra_data is as the generator returned it: it has its states, and every
\* tile has its id and a slice that can be read
Undamaged(data) ==
    /\ ~NothingToDo(data)
    /\ \A k \in 1 .. Len(TilePaths(data)) :
          LET tile == TileAt(data, TilePaths(data)[k])
          IN /\ "id" \in DOMAIN tile
             /\ ~CropRaises(tile.sliceX, tile.sliceY, DedupTileWidth, DedupTileHeight)

\* the pixels of the slice rectangle the Deduplicator reads for the tile
\* that was at position k of the document when the pass began
DContent(k) ==
    LET tile == TileAt(d_before, TilePaths(d_before)[k])
    IN ImageCrop(d_image, tile.sliceX, tile.sliceY,
                 tile.sliceX + DedupTileWidth, tile.sliceY + DedupTileHeight).px

\* the position of the first tile in document order with the content of tile k
DFirst(k) == CHOOSE j \in 1 .. k :
    /\ DContent(j) = DContent(k)
    /\ \A i \in 1 .. (j - 1) : DContent(i) # DContent(k)

\* C12: tile ids are pairwise distinct in a freshly generated descriptor;
\* after one Deduplicator pass over it, two tiles whose slice rectangles (as
\* the Deduplicator reads them) hold identical pixels both carry the id,
\* sliceX and sliceY of the first tile in document order with that content,
\* and two tiles whose content differs never share an id.
C12_Sharing ==
    LET paths == TilePaths(d_before)
        n == Len(paths)
    IN /\ (d_pass = 0 /\ d_pc = "start" /\ Undamaged(d_before)) =>
             \A j, k \in 1 .. n :
                j # k => TileAt(d_data, paths[j]).id # TileAt(d_data, paths[k]).id
       /\ (d_pass = 1 /\ d_pc = "done" /\ Undamaged(d_before)) =>
             \A j, k \in 1 .. n :
                LET tj == TileAt(d_data, paths[j])
                    tk == TileAt(d_data, paths[k])
                    first == TileAt(d_before, paths[DFirst(k)])
                IN IF DContent(j) = DContent(k)
                   THEN /\ tk.id = first.id /\ tj.id = first.id
                        /\ tk.sliceX = first.sliceX /\ tj.sliceX = first.sliceX
                        /\ tk.sliceY = first.sliceY /\ tj.sliceY = first.sliceY
                   ELSE tj.id # tk.id

\* one pass is over a descriptor in which two tiles at different slices lie
\* inside the raster and hold the same pixels, and a third tile holds others
C12_Witness ==
    /\ d_pass = 1 /\ d_pc = "done" /\ Undamaged(d_before)
    /\ LET paths == TilePaths(d_before)
           n == Len(paths)
       IN \E j, k, m \in 1 .. n :
             LET tj == TileAt(d_before, paths[j])
                 tk == TileAt(d_before, paths[k])
             IN /\ j < k
                /\ DContent(j) = DContent(k)
                /\ DContent(m) # DContent(k)
                /\ <<tj.sliceX, tj.sliceY>> # <<tk.sliceX, tk.sliceY>>
                /\ tk.sliceX + DedupTileWidth <= d_image.w
                /\ tk.sliceY + DedupTileHeight <= d_image.h
                /\ TileAt(d_data, paths[k]).id = tj.id


\* the keys of a tile that hold neither its identity nor its slice
DStableKeys ==
    {"comment", "x", "y", "palette", "flipX", "flipY", "objPalette",
     "paletteIndex", "priority"}

\* the descriptor without the statistics, each tile cut down to DStableKeys:
\* what is where, whatever the tiles' ids and slices are
DSkeleton(data) ==
    [k \in DOMAIN data \ {"deduplication"} |->
        IF k # "states" THEN data[k]
        ELSE [s \in 1 .. Len(data.states) |->
               [data.states[s] EXCEPT !.animations =
                 [a \in 1 .. Len(@) |->
                   [@[a] EXCEPT !.frames =
                     [f \in 1 .. Len(@) |->
                       [@[f] EXCEPT !.tiles =
                         [t \in 1 .. Len(@) |->
                           [key \in DOMAIN @[t] \cap DStableKeys |-> @[t][key]]]]]]]]]]

\* C13: a Deduplicator pass never removes, adds or reorders states,
\* animations, frames or tiles: at every step of every pass each frame has
\* the tiles it had, each at its index, and states, animations and frames are
\* as they were.
C13_PositionalStability ==
    d_pc \in {"start", "tiles", "done"} =>
        IF NothingToDo(d_before) THEN d_data = d_before
        ELSE /\ ~NothingToDo(d_data)
             /\ TilePaths(d_data) = TilePaths(d_before)
             /\ DSkeleton(d_data) = DSkeleton(d_before)

\* a pass has rewritten the first tile of a frame of several tiles
C13_Witness ==
    /\ d_pc = "done" /\ d_pass >= 1 /\ ~NothingToDo(d_data)
    /\ \E k \in 1 .. Len(TilePaths(d_data)) :
          LET p == TilePaths(d_data)[k]
          IN /\ p[4] = 1
             /\ Len(d_data.states[p[1]].animations[p[2]].frames[p[3]].tiles) >= 2
             /\ "deduplicated" \in DOMAIN TileAt(d_data, p)
             /\ TileAt(d_data, p).id # TileAt(d_before, p).id


\* C14: after any pass, the emitted statistics satisfy
\* unique_tiles + duplicate_tiles = total_tiles, total_tiles being the number
\* of tiles visited.
C14_Statistics ==
    (d_pc = "done" /\ "deduplication" \in DOMAIN d_data) =>
        LET stats == d_data.deduplication
        IN /\ stats.total_tiles = Len(TilePaths(d_data))
           /\ stats.unique_tiles + stats.duplicate_tiles = stats.total_tiles


------------------------------------------------------------------------------
(* The generator on the raster of test_processing: 32 x 32, sentinel green *)
(* but for pixels of the 8 x 16 block at (0, 0).                           *)

\* the side of the test raster
ExampleSide == 32

\* the pixels of the block at (0, 0) of the default tile size
ExampleBlock == Coords(DBaseParams.twidth, DBaseParams.theight)

\* the pattern test_processing draws into the block
ExampleChecker == { p \in ExampleBlock : (p[1] + p[2]) % 2 = 0 }

\* a w x h raster of sentinel green with colour c at the pixels of ink
ExampleRaster(w, h, ink, c) ==
    [w |-> w, h |-> h,
     px |-> [p \in Coords(w, h) |-> IF p \in ink THEN c ELSE Sentinel]]

\* the test rasters: one pixel of the block, the checker pattern or the whole
\* block painted; beside them a raster left green, one painted outside the
\* block, and one too narrow for a tile
ExampleRasters ==
    { ExampleRaster(ExampleSide, ExampleSide, ink, c) :
        ink \in { {p} : p \in ExampleBlock } \cup {ExampleChecker, ExampleBlock, {}},
        c \in {Red, Blue, Black} }
    \cup { ExampleRaster(ExampleSide, ExampleSide, {<<8, 0>>}, Red),
           ExampleRaster(ExampleSide, ExampleSide, {<<0, 16>>}, Red),
           ExampleRaster(4, ExampleSide, {<<0, 0>>}, Red) }

InitExample ==
    /\ IdleInterleave /\ IdleTriplets /\ IdleSplitter /\ IdleDedup /\ IdleWrapper
    /\ g_image \in ExampleRasters
    /\ g_params \in {DBaseParams, [DBaseParams EXCEPT !.twidth = 0]}
    /\ g_run = 0
    /\ g_first = <<>>
    /\ g_local = NoImage
    /\ g_data = <<>>
    /\ g_state_offset = 0
    /\ g_state_index = 0
    /\ g_error = "none"
    /\ g_result = <<>>
    /\ g_pc = "start"

SpecExample == InitExample /\ [][NextGenerator]_vars

\* the case of C15: the parameters and the raster of the example
ExampleCase ==
    /\ g_params = DBaseParams
    /\ g_image.w = ExampleSide /\ g_image.h = ExampleSide
    /\ \E p \in ExampleBlock : g_image.px[p] # Sentinel
    /\ \A p \in Coords(ExampleSide, ExampleSide) \ ExampleBlock :
          g_image.px[p] = Sentinel

\* C15: for a 32x32 raster, sentinel green but for non-green pixels inside
\* the 8x16 block at (0,0), with tile 8x16, 1x1 tiles per frame, states
\* "fixed" and palettes "1", the descriptor has one state with one animation;
\* there are 4 candidate slots, slot 1 is empty and ends the scan (two
\* candidates counted), and the one retained frame holds one tile sliced at
\* (0,0).
C15_Example ==
    (g_pc = "done" /\ ExampleCase) =>
        LET data == g_result.extra_data
        IN /\ Len(data.states) = 1
           /\ Len(data.states[1].animations) = 1
           /\ MaxFrames(g_params, g_image.w) = 4
           /\ FrameIsEmpty(g_params, g_local,
                           _create_frame_tiles(g_run, g_params, 1, 0, 0, 1, 0))
           /\ data.numFrames = 2
           /\ Len(data.states[1].animations[1].frames) = 1
           /\ Len(data.states[1].animations[1].frames[1].tiles) = 1
           /\ data.states[1].animations[1].frames[1].tiles[1].sliceX = 0
           /\ data.states[1].animations[1].frames[1].tiles[1].sliceY = 0

\* the generator has returned for the checker pattern of test_processing
C15_Witness ==
    /\ g_pc = "done" /\ ExampleCase
    /\ g_image = ExampleRaster(ExampleSide, ExampleSide, ExampleChecker, Red)
    /\ Len(g_result.extra_data.states[1].animations[1].frames) = 1


\* a dictionary without its generated id
WithoutId(d) == [k \in DOMAIN d \ {"id"} |-> d[k]]

StripFrame(frame) ==
    [WithoutId(frame) EXCEPT !.tiles = [t \in 1 .. Len(@) |-> WithoutId(@[t])]]

StripAnimation(animation) ==
    [WithoutId(animation) EXCEPT !.frames = [f \in 1 .. Len(@) |-> StripFrame(@[f])]]

StripState(state) ==
    [WithoutId(state) EXCEPT
        !.animations = [a \in 1 .. Len(@) |-> StripAnimation(@[a])]]

\* a descriptor without its generated ids: those of the descriptor, its
\* states, animations, frames and tiles
StripIds(data) ==
    [WithoutId(data) EXCEPT !.states = [i \in 1 .. Len(@) |-> StripState(@[i])]]

------------------------------------------------------------------------------
(* spr_png_to_gbstudio_anim.process: optional layer split, the generator,  *)
(* then the merge of a template.  Parameters are the dictionary argdict    *)
(* returns; a key the parameter string does not give is absent.            *)

\* spr_rgb_to_3color_layers.process(image): the error raised, or the raster
\* returned
SplitterProcess(image) ==
    LET triplets == _extract_color_triplets(image, image.w)
        rem_height == image.h - SkipRows
    IN IF image.w < MinWidth
       THEN [error |-> "Image width must be at least 4 pixels to contain color triplets"]
       ELSE IF triplets = <<>>
       THEN [error |-> "No valid color triplets found in the first row"]
       ELSE IF BodyTooSmall(rem_height)
       THEN [error |-> "Image height is too small to discard 8 rows and proceed."]
       ELSE [error |-> "none",
             image |-> _create_stacked_bands(image, triplets, image.w, rem_height)]

\* lines 150-159 of the generator: the parameters with their defaults
GeneratorArgs(args) ==
    [fname |-> DictGet(args, "fname", S_TBD),
     chksum |-> DictGet(args, "chksum", "TBD"),
     twidth |-> DictGet(args, "twidth", 8),
     theight |-> DictGet(args, "theight", 16),
     states |-> DictGet(args, "states", <<S_fixed>>),
     htiles |-> DictGet(args, "htiles", 1),
     vtiles |-> DictGet(args, "vtiles", 1),
     palettes |-> DictGet(args, "palettes", <<"1">>)]

S_sprite == <<"s", "p", "r", "i", "t", "e">>

\* lines 28-30
WrapperFname(args) == DictGet(args, "fname", S_sprite)
EnableRgb(args) == DictGet(args, "rgb", "n") = "y"
EnableProcessing(args) == DictGet(args, "processing", "TBD") = "True"

\* a whitelist that also lets animSpeed through
PreservedFieldsAndSpeed ==
    {"resourceType", "id", "name", "symbol", "filename", "checksum", "width",
     "height", "animSpeed"}

\* preserved_fields
preserved_fields ==
    {"resourceType", "id", "name", "symbol", "filename", "checksum", "width",
     "height"}

\* gbsres_data and isinstance(gbsres_data, dict)
UsableTemplate(gbsres) == gbsres.kind = "dict" /\ DOMAIN gbsres.value # {}

\* lines 60-62 and 55-57: name, filename and symbol from fname
WithNames(extra_data, fname) ==
    DictSet(DictSet(DictSet(extra_data,
        "filename", fname \o S_png),
        "name", fname),
        "symbol", S_sprite_ \o StrReplace(fname, <<" ">>, <<"_">>))

\* lines 44-53: the fields of the template that are copied
WithTemplate(extra_data, template) ==
    LET copied == preserved_fields \cap DOMAIN template
    IN [k \in DOMAIN extra_data \cup copied |->
           IF k \in copied THEN template[k] ELSE extra_data[k]]

\* lines 42-63
Merge(extra_data, gbsres, args) ==
    IF ~EnableProcessing(args) THEN extra_data
    ELSE IF UsableTemplate(gbsres)
         THEN WithNames(WithTemplate(extra_data, gbsres.value), WrapperFname(args))
         ELSE WithNames(extra_data, WrapperFname(args))


\* the wrapper's plain rasters are at most WMaxW wide and WMaxH high
WMaxW == 2
WMaxH == 2

\* plain rasters, green or with one red pixel, and rasters with a header row:
\* one the layer splitter accepts, one without body rows, one without triplet
WRasters ==
    { GRaster(w, h, ink) : w \in 1 .. WMaxW, h \in 1 .. WMaxH,
                           ink \in {{}, {<<0, 0>>}} }
    \cup { SpRaster(<<Red, Blue, Red, Sentinel>>, SkipRows + 1),
           SpRaster(<<Red, Blue, Red, Sentinel>>, SkipRows),
           SpRaster(<<Sentinel, Blue, Red, Sentinel>>, SkipRows + 1) }

\* the keys of d that are in keys
Restrict(d, keys) == [k \in DOMAIN d \cap keys |-> d[k]]

\* a record of an earlier run, with every whitelisted key and two others
WTemplateFull ==
    [resourceType |-> "template", id |-> <<"uuid", -1>>,
     name |-> <<"o", "l", "d">>, symbol |-> S_sprite_ \o <<"o", "l", "d">>,
     filename |-> <<"o", "l", "d">> \o S_png, checksum |-> "abc",
     width |-> 99, height |-> 77, numFrames |-> 42, animSpeed |-> 3]

\* gbsres_data: None, a list, an empty dictionary, the full record, the
\* full record less one whitelisted key, and a record of other keys only
WTemplates ==
    { [kind |-> "none", value |-> <<>>], [kind |-> "list", value |-> <<>>],
      [kind |-> "dict", value |-> <<>>], [kind |-> "dict", value |-> WTemplateFull],
      [kind |-> "dict", value |-> Restrict(WTemplateFull, {"numFrames", "animSpeed"})] }
    \cup { [kind |-> "dict",
            value |-> Restrict(WTemplateFull, DOMAIN WTemplateFull \ {k})] :
              k \in preserved_fields }

\* the parameter dictionaries: tiles of one pixel, or the default width, or
\* width 0, or four animations; with and without fname, rgb and processing
WParams ==
    { core @@ fname @@ rgb @@ processing :
        core \in { [twidth |-> 1, theight |-> 1], [theight |-> 1],
                   [twidth |-> 0, theight |-> 1],
                   [twidth |-> 1, theight |-> 1, states |-> <<S_multi>>] },
        fname \in { <<>>, [fname |-> <<"a", " ", "b">> \o S_png] },
        rgb \in { <<>>, [rgb |-> "y"] },
        processing \in { <<>>, [processing |-> "True"] } }

InitWrapper ==
    /\ IdleInterleave /\ IdleTriplets /\ IdleSplitter /\ IdleGenerator /\ IdleDedup
    /\ w_image \in WRasters
    /\ w_params \in WParams
    /\ w_gbsres \in WTemplates
    /\ w_result = <<>>
    /\ w_error = "none"
    /\ w_pc = "start"

\* lines 33-34, the layer splitter raising
WrapperRejectSplit ==
    /\ w_pc = "start"
    /\ EnableRgb(w_params)
    /\ SplitterProcess(w_image).error # "none"
    /\ w_error' = SplitterProcess(w_image).error
    /\ w_pc' = "error"
    /\ UNCHANGED <<w_image, w_params, w_gbsres, w_result,
                   il_vars, tp_vars, sp_vars, g_vars, d_vars>>

\* lines 26-37: the generator is called with the raster, split if asked
WrapperGenerate ==
    /\ w_pc = "start"
    /\ EnableRgb(w_params) => SplitterProcess(w_image).error = "none"
    /\ g_image' = IF EnableRgb(w_params) THEN SplitterProcess(w_image).image
                  ELSE w_image
    /\ g_params' = GeneratorArgs(w_params)
    /\ g_pc' = "start"
    /\ w_pc' = "generate"
    /\ UNCHANGED <<w_image, w_params, w_gbsres, w_result, w_error,
                   g_run, g_first, g_local, g_data, g_state_offset,
                   g_state_index, g_error, g_result,
                   il_vars, tp_vars, sp_vars, d_vars>>

\* line 37, the generator raising
WrapperFail ==
    /\ w_pc = "generate"
    /\ g_pc = "error"
    /\ w_error' = g_error
    /\ w_pc' = "error"
    /\ UNCHANGED <<w_image, w_params, w_gbsres, w_result,
                   il_vars, tp_vars, sp_vars, g_vars, d_vars>>

\* lines 39-65
WrapperReturn ==
    /\ w_pc = "generate"
    /\ g_pc = "done"
    /\ w_result' = [image |-> g_result.image,
                    no_save |-> ~EnableRgb(w_params),
                    extra_data |-> Merge(g_result.extra_data, w_gbsres, w_params)]
    /\ w_pc' = "done"
    /\ UNCHANGED <<w_image, w_params, w_gbsres, w_error,
                   il_vars, tp_vars, sp_vars, g_vars, d_vars>>

NextWrapper ==
    \/ WrapperRejectSplit
    \/ WrapperGenerate
    \/ NextGenerator
    \/ WrapperFail
    \/ WrapperReturn

SpecWrapper == InitWrapper /\ [][NextWrapper]_vars


C20_SourceSize ==
    /\ g_pc = "done" =>
          /\ g_result.extra_data.width = g_image.w
          /\ g_result.extra_data.height = g_image.h
    /\ w_pc = "done" =>
          /\ w_result.extra_data.width = g_image.w
          /\ w_result.extra_data.height = g_image.h


\* the parameters or the raster width C18 names as invalid
C18_Invalid ==
    \/ g_params.twidth <= 0 \/ g_params.theight <= 0
    \/ g_params.htiles <= 0 \/ g_params.vtiles <= 0
    \/ g_params.palettes = <<>>
    \/ \E k \in 1 .. Len(g_params.palettes) : g_params.palettes[k] = ""
    \/ g_image.w \div (g_params.htiles * g_params.twidth) < 1

\* C18: whenever tileWidth <= 0, tileHeight <= 0, horizontalTilesPerFrame
\* <= 0, verticalTilesPerFrame <= 0, a palette entry is blank or the list is
\* empty, or rasterWidth div (horizontalTilesPerFrame * tileWidth) < 1, the
\* generator ends in a validation error; no descriptor is ever created,
\* attached or returned, and the caller's raster is left as it was.
C18_Validation ==
    [][ C18_Invalid =>
          /\ g_pc' \in {"start", "interleaved", "error"}
          /\ g_pc \in {"start", "interleaved"} /\ g_pc' # g_pc /\ g_pc' # "interleaved"
                => g_pc' = "error" /\ g_error' # "none"
          /\ DOMAIN g_data' = {}
          /\ DOMAIN g_result' = {}
          /\ g_image' = g_image ]_vars

\* the width check has failed after the raster was interleaved
C18_Witness ==
    /\ g_pc = "error"
    /\ g_error = "Image width is too small for the specified tile configuration"
    /\ g_local # NoImage
    /\ DOMAIN g_data = {}


\* the rows of tiles C19 gives state s (counted from 1) of a descriptor
C19_Rows(data, s) ==
    g_params.vtiles * Len(g_params.palettes) * Len(data.states[s].animations)

\* the offset C19 gives state s: 0 for the first state, and the offset of
\* the state before plus that state's rows for the others
RECURSIVE C19_Offset(_, _)
C19_Offset(data, s) ==
    IF s = 1 THEN 0 ELSE C19_Offset(data, s - 1) + C19_Rows(data, s - 1)

\* C19: the state offset starts at 0 and advances after each state, in
\* declared order, by verticalTilesPerFrame * layerCount * animationCount of
\* that state; every tile of state s has sliceY / tileHeight inside
\* [offset_s, offset_s + verticalTilesPerFrame * layerCount * animationCount_s),
\* and the windows of two different states are disjoint.
C19_RowWindows ==
    g_pc \in {"states", "done"} =>
        LET data == g_data
            n == Len(data.states)
        IN /\ g_state_offset = C19_Offset(data, n + 1)
           /\ \A s \in 1 .. n :
                 /\ \A t \in (s + 1) .. n :
                       C19_Offset(data, s) + C19_Rows(data, s) <= C19_Offset(data, t)
                 /\ \A a \in 1 .. Len(data.states[s].animations) :
                    \A f \in 1 .. Len(data.states[s].animations[a].frames) :
                    \A k \in 1 .. Len(data.states[s].animations[a].frames[f].tiles) :
                       LET tile == data.states[s].animations[a].frames[f].tiles[k]
                           row == tile.sliceY \div g_params.theight
                       IN /\ tile.sliceY = row * g_params.theight
                          /\ C19_Offset(data, s) <= row
                          /\ row < C19_Offset(data, s) + C19_Rows(data, s)

\* two states were generated, the first of several animations, each state
\* with a retained frame, with more than one row of tiles per animation
C19_Witness ==
    /\ g_pc = "done"
    /\ Len(g_data.states) = 2
    /\ Len(g_data.states[1].animations) >= 3
    /\ g_params.vtiles * Len(g_params.palettes) >= 2
    /\ \A s \in 1 .. 2 : \E a \in 1 .. Len(g_data.states[s].animations) :
          g_data.states[s].animations[a].frames # <<>>


\* C21: for every valid configuration the descriptor has canvasWidth =
\* horizontalTilesPerFrame * tileWidth, canvasHeight = verticalTilesPerFrame *
\* tileHeight, boundsX = boundsY = 0, boundsWidth = canvasWidth, boundsHeight
\* = canvasHeight and animSpeed = 15, from its creation to its return,
\* whatever the raster holds and whatever the state list is.
C21_CanvasBounds ==
    g_pc \in {"states", "done"} =>
        LET data == IF g_pc = "done" THEN g_result.extra_data ELSE g_data
        IN /\ data.canvasWidth = g_params.htiles * g_params.twidth
           /\ data.canvasHeight = g_params.vtiles * g_params.theight
           /\ data.boundsX = 0
           /\ data.boundsY = 0
           /\ data.boundsWidth = data.canvasWidth
           /\ data.boundsHeight = data.canvasHeight
           /\ data.animSpeed = 15

\* a descriptor returned for frames two tiles wide on a raster that is wider
\* and higher than the canvas, with a retained frame
C21_Witness ==
    /\ g_pc = "done"
    /\ g_params.htiles = 2
    /\ g_params.theight = 2
    /\ g_image.w > g_result.extra_data.canvasWidth
    /\ g_image.h > g_result.extra_data.canvasHeight
    /\ AllFrames(g_result.extra_data) # <<>>


\* C22: within a retained frame the tiles come in nested order (vertical
\* index outermost, then horizontal index, then layer index innermost); the
\* tile of (v, h, layer) in the frame of index f of animation a has
\* sliceX = (h + f * horizontalTilesPerFrame) * tileWidth,
\* sliceY = (stateOffset + verticalTilesPerFrame * layerCount * a
\*           + verticalTilesPerFrame * layer + v) * tileHeight,
\* x = h * tileWidth + compensation, the compensation being 0 when
\* horizontalTilesPerFrame <= 2 and (horizontalTilesPerFrame - 2) * (-4)
\* otherwise, y = v * tileHeight, and the layer-th palette entry as its
\* palette reference.
C22_TileGeometry ==
    g_pc \in {"states", "done"} =>
        LET data == g_data
            ht == g_params.htiles
            vt == g_params.vtiles
            layers == Len(g_params.palettes)
            compensation == IF ht <= 2 THEN 0 ELSE (ht - 2) * (-4)
        IN \A s \in 1 .. Len(data.states) :
           \A a \in 1 .. Len(data.states[s].animations) :
           \A f \in 1 .. Len(data.states[s].animations[a].frames) :
              LET tiles == data.states[s].animations[a].frames[f].tiles
              IN /\ Len(tiles) = vt * ht * layers
                 /\ \A v \in 0 .. (vt - 1), h \in 0 .. (ht - 1), l \in 0 .. (layers - 1) :
                       LET tile == tiles[(v * ht + h) * layers + l + 1]
                       IN /\ tile.sliceX = (h + (f - 1) * ht) * g_params.twidth
                          /\ tile.sliceY = (C19_Offset(data, s) + vt * layers * (a - 1)
                                            + vt * l + v) * g_params.theight
                          /\ tile.x = h * g_params.twidth + compensation
                          /\ tile.y = v * g_params.theight
                          /\ tile.paletteIndex = g_params.palettes[l + 1]

\* a frame three tiles wide and two layers deep was retained
C22_Witness ==
    /\ g_pc = "done"
    /\ g_params.htiles = 3
    /\ Len(g_params.palettes) = 2
    /\ \E k \in 1 .. Len(AllTiles(g_data)) :
          /\ AllTiles(g_data)[k].x < 0
          /\ AllTiles(g_data)[k].paletteIndex = "2"


\* the colour read at p of the raster the generator slices; outside the
\* raster the imaging library reads black
C23_Pixel(p) ==
    IF p \in DOMAIN g_local.px THEN g_local.px[p] ELSE <<0, 0, 0>>

\* every pixel of the slice rectangle at (slice_x, slice_y) is the sentinel
C23_TileEmpty(slice_x, slice_y) ==
    \A x \in slice_x .. (slice_x + g_params.twidth - 1),
       y \in slice_y .. (slice_y + g_params.theight - 1) :
          C23_Pixel(<<x, y>>) = <<0, 255, 0>>

\* every tile of the candidate frame of index f of animation a (both counted
\* from 0) of a state whose rows begin at row `offset` is empty
C23_CandidateEmpty(offset, a, f) ==
    LET ht == g_params.htiles
        vt == g_params.vtiles
        layers == Len(g_params.palettes)
    IN \A v \in 0 .. (vt - 1), h \in 0 .. (ht - 1), l \in 0 .. (layers - 1) :
          C23_TileEmpty((h + f * ht) * g_params.twidth,
                        (offset + vt * layers * a + vt * l + v) * g_params.theight)

C23_MaxFrames == g_image.w \div (g_params.htiles * g_params.twidth)

\* C23: for each animation the retained frames are exactly the candidates
\* 0 .. k-1, k being the smallest index in 0 .. maxFramesPerRow-1 whose tiles
\* are all empty (every pixel of every tile's slice rectangle is the
\* sentinel), or maxFramesPerRow if there is none; candidate k is not
\* appended, no candidate after k is examined or appended, and every retained
\* frame has a tile that is not empty.  The candidates examined are those the
\* frame counter has counted: k + 1 of an animation that stopped at k, and
\* maxFramesPerRow of one that did not stop.
C23_FrameTrimming ==
    g_pc \in {"states", "done"} =>
        LET data == g_data
            examined(k) == IF k < C23_MaxFrames THEN k + 1 ELSE C23_MaxFrames
        IN /\ \A s \in 1 .. Len(data.states) :
              \A offset \in {C19_Offset(data, s)} :
              \A a \in 1 .. Len(data.states[s].animations) :
                 LET frames == data.states[s].animations[a].frames
                     k == Len(frames)
                 IN /\ k <= C23_MaxFrames
                    /\ k < C23_MaxFrames => C23_CandidateEmpty(offset, a - 1, k)
                    /\ \A e \in 0 .. (k - 1) : ~C23_CandidateEmpty(offset, a - 1, e)
                    /\ \A f \in 1 .. k :
                          /\ frames[f].tiles[1].sliceX
                                 = (f - 1) * g_params.htiles * g_params.twidth
                          /\ \E t \in 1 .. Len(frames[f].tiles) :
                                ~C23_TileEmpty(frames[f].tiles[t].sliceX,
                                               frames[f].tiles[t].sliceY)
           /\ data.numFrames =
                 Len(Flatten([s \in 1 .. Len(data.states) |->
                        Flatten([a \in 1 .. Len(data.states[s].animations) |->
                           [e \in 1 .. examined(Len(data.states[s].animations[a].frames))
                               |-> e]])]))

\* an animation kept candidate 0 and stopped at the empty candidate 1, with
\* candidate 2 not empty
C23_Witness ==
    /\ g_pc = "done"
    /\ C23_MaxFrames = 3
    /\ Len(g_data.states[1].animations[1].frames) = 1
    /\ C23_CandidateEmpty(0, 0, 1)
    /\ ~C23_CandidateEmpty(0, 0, 2)


\* the specifier has the flip modifier at index j
C24_FlipAt(specifier, j) ==
    j + 1 <= Len(specifier) /\ specifier[j] = "#" /\ specifier[j + 1] = "f"

\* the specifier without its flip modifiers
RECURSIVE C24_Unflipped(_)
C24_Unflipped(specifier) ==
    IF specifier = <<>> THEN <<>>
    ELSE IF C24_FlipAt(specifier, 1)
         THEN C24_Unflipped(SubSeq(specifier, 3, Len(specifier)))
         ELSE <<specifier[1]>> \o C24_Unflipped(SubSeq(specifier, 2, Len(specifier)))

\* C24: a specifier that is none of the five table entries raises no error
\* and yields a state with exactly 1 animation; for every specifier flipLeft
\* is true exactly when the specifier contains the flip modifier, and
\* animationType is the specifier with the flip modifier removed.
C24_Specifiers ==
    /\ g_pc = "error" => C18_Invalid
    /\ g_pc \in {"states", "done"} =>
          \A i \in 1 .. Len(g_data.states) :
             LET specifier == g_params.states[i]
                 state == g_data.states[i]
             IN /\ C10_Count(specifier) = 0 => Len(state.animations) = 1
                /\ state.flipLeft
                      = (\E j \in 1 .. Len(specifier) : C24_FlipAt(specifier, j))
                /\ state.animationType = C24_Unflipped(specifier)

\* a descriptor was returned for "fixed" with the flip modifier, its one
\* animation with a retained frame
C24_Witness ==
    /\ g_pc = "done"
    /\ g_params.states = << <<"f", "i", "x", "e", "d", "#", "f">> >>
    /\ g_result.extra_data.states[1].flipLeft
    /\ g_result.extra_data.states[1].animationType = <<"f", "i", "x", "e", "d">>
    /\ Len(g_result.extra_data.states[1].animations) = 1
    /\ g_result.extra_data.states[1].animations[1].frames # <<>>


\* the shadow fields and the reference mark of a tile
C25_ShadowKeys ==
    {"original_id", "original_sliceX", "original_sliceY", "deduplicated", "references"}

\* C25: after one pass over a freshly generated descriptor, every tile that
\* was rewritten as a duplicate is marked as a reference and its shadow
\* fields hold the id, sliceX and sliceY the tile had before the pass, while
\* its id, sliceX and sliceY hold the first occurrence's values; a tile that
\* is the first occurrence of its content has no shadow field and no
\* reference mark.
C25_ShadowFields ==
    (d_pass = 1 /\ d_pc = "done" /\ Undamaged(d_before)) =>
        LET paths == TilePaths(d_before)
        IN \A k \in 1 .. Len(paths) :
              LET before == TileAt(d_before, paths[k])
                  after == TileAt(d_data, paths[k])
                  first == TileAt(d_before, paths[DFirst(k)])
              IN IF DFirst(k) # k
                 THEN /\ C25_ShadowKeys \subseteq DOMAIN after
                      /\ after.deduplicated = TRUE
                      /\ after.references = first.id
                      /\ after.original_id = before.id
                      /\ after.original_sliceX = before.sliceX
                      /\ after.original_sliceY = before.sliceY
                      /\ after.id = first.id
                      /\ after.sliceX = first.sliceX
                      /\ after.sliceY = first.sliceY
                 ELSE /\ DOMAIN after \cap C25_ShadowKeys = {}
                      /\ after = before

\* one pass rewrote a tile whose slice was in another row and another column
\* than the first occurrence's, and left a later first occurrence as it was
C25_Witness ==
    /\ d_pass = 1 /\ d_pc = "done" /\ Undamaged(d_before)
    /\ LET paths == TilePaths(d_before)
       IN \E k, m \in 1 .. Len(paths) :
             LET after == TileAt(d_data, paths[k])
             IN /\ "deduplicated" \in DOMAIN after
                /\ after.original_sliceX # after.sliceX
                /\ after.original_sliceY # after.sliceY
                /\ after.original_id # after.id
                /\ m > 1
                /\ DFirst(m) = m
                /\ TileAt(d_data, paths[m]) = TileAt(d_before, paths[m])


\* the slice of the tile cannot be read: its rectangle is not inside the
\* raster, or the read of it raises
C26_Unreadable(tile) ==
    LET slice_x == DictGet(tile, "sliceX", 0)
        slice_y == DictGet(tile, "sliceY", 0)
    IN \/ CropRaises(slice_x, slice_y, DedupTileWidth, DedupTileHeight)
       \/ ~(/\ 0 <= slice_x /\ slice_x + DedupTileWidth <= d_image.w
            /\ 0 <= slice_y /\ slice_y + DedupTileHeight <= d_image.h)

\* the first tile in document order that can be read and has the content of
\* tile k, itself readable
C26_First(k) ==
    LET paths == TilePaths(d_before)
    IN CHOOSE j \in 1 .. k :
          /\ ~C26_Unreadable(TileAt(d_before, paths[j]))
          /\ DContent(j) = DContent(k)
          /\ \A i \in 1 .. (j - 1) :
                C26_Unreadable(TileAt(d_before, paths[i])) \/ DContent(i) # DContent(k)

\* C26: when a tile's slice cannot be read, the pass leaves that tile as it
\* was and does not record it as a first occurrence; it goes on with the next
\* tile, and every readable tile is processed as if the unreadable tile were
\* absent: it is left alone when no readable tile before it has its content,
\* and takes the id and slice of the first readable tile with its content
\* otherwise.
C26_Isolation ==
    (d_pass = 1 /\ d_pc = "done" /\ ~NothingToDo(d_before)) =>
        LET paths == TilePaths(d_before)
        IN \A k \in 1 .. Len(paths) :
              LET before == TileAt(d_before, paths[k])
                  after == TileAt(d_data, paths[k])
              IN IF C26_Unreadable(before)
                 THEN /\ after = before
                      /\ \A h \in DOMAIN d_tile_hashes :
                            <<d_tile_hashes[h].sliceX, d_tile_hashes[h].sliceY>>
                                # <<DictGet(before, "sliceX", 0), DictGet(before, "sliceY", 0)>>
                 ELSE IF C26_First(k) = k
                      THEN after = before
                      ELSE LET first == TileAt(d_before, paths[C26_First(k)])
                           IN /\ after.id = DictGet(first, "id", <<"tile_", C26_First(k)>>)
                              /\ after.sliceX = first.sliceX
                              /\ after.sliceY = first.sliceY


\* the pixels of the slice rectangle of the configured tile size of the tile
\* that was at position k of the document when the pass began
C27_Content(k) ==
    LET tile == TileAt(d_before, TilePaths(d_before)[k])
    IN ImageCrop(d_image, tile.sliceX, tile.sliceY,
                 tile.sliceX + d_cfg.twidth, tile.sliceY + d_cfg.theight).px

\* C27: for a descriptor generated with any tile width and height, a pass
\* rewrites a tile to reference another tile only if the two tiles' slice
\* rectangles of the configured tile size are pixel-identical, and it always
\* merges two tiles whose slice rectangles of that size are pixel-identical.
C27_ConfiguredSize ==
    (d_pass = 1 /\ d_pc = "done" /\ Undamaged(d_before)) =>
        LET paths == TilePaths(d_before)
        IN \A j, k \in 1 .. Len(paths) :
              LET tj == TileAt(d_data, paths[j])
                  tk == TileAt(d_data, paths[k])
              IN /\ ("references" \in DOMAIN tk
                        /\ tk.references = TileAt(d_before, paths[j]).id)
                    => C27_Content(j) = C27_Content(k)
                 /\ C27_Content(j) = C27_Content(k) => tj.id = tk.id


\* C28: a second pass over the output of the first changes no field of any
\* tile (id, sliceX, sliceY, shadow fields and reference mark stay as the
\* first pass left them) and reports the total, unique and duplicate counts
\* of the first pass.
C28_Idempotence ==
    (d_pass = 2 /\ d_pc = "done") =>
        IF NothingToDo(d_before) THEN d_data = d_before
        ELSE /\ TilePaths(d_data) = TilePaths(d_before)
             /\ \A k \in 1 .. Len(TilePaths(d_before)) :
                   TileAt(d_data, TilePaths(d_before)[k])
                       = TileAt(d_before, TilePaths(d_before)[k])
             /\ d_data.deduplication.total_tiles = d_before.deduplication.total_tiles
             /\ d_data.deduplication.unique_tiles = d_before.deduplication.unique_tiles
             /\ d_data.deduplication.duplicate_tiles
                    = d_before.deduplication.duplicate_tiles


\* C29: in a descriptor the generator produces, two distinct tiles, in the
\* same frame or in different frames, animations or states, never have the
\* same (sliceX, sliceY): there are as many slice origins as tiles.  This
\* holds of the descriptor after every state.
C29_SliceOrigins ==
    g_pc \in {"states", "done"} =>
        \A tiles \in {AllTiles(g_data)} :
           Cardinality({ <<tiles[k].sliceX, tiles[k].sliceY>> : k \in 1 .. Len(tiles) })
               = Len(tiles)

\* a descriptor of two states and two layers was returned, each state with
\* a retained frame
C29_Witness ==
    /\ g_pc = "done"
    /\ Len(g_result.extra_data.states) = 2
    /\ Len(g_params.palettes) = 2
    /\ Len(AllTiles(g_result.extra_data)) >= 4
    /\ \A s \in 1 .. 2 :
          g_result.extra_data.states[s].animations[1].frames # <<>>


\* the triplets returned so far occupy 4-pixel windows of the first row, one
\* after the other without overlap, each starting with a pixel that is not
\* the sentinel and ending in a sentinel pixel
C30_Windows ==
    \E starts \in [1 .. Len(tp_triplets) -> 0 .. (tp_image.w - 1)] :
       \A n \in 1 .. Len(tp_triplets) :
          /\ starts[n] + 3 < tp_image.w
          /\ n > 1 => starts[n] >= starts[n - 1] + 4
          /\ tp_image.px[<<starts[n], 0>>] # <<0, 255, 0>>
          /\ tp_image.px[<<starts[n] + 3, 0>>] = <<0, 255, 0>>
          /\ tp_triplets[n] = <<tp_image.px[<<starts[n], 0>>],
                                tp_image.px[<<starts[n] + 1, 0>>],
                                tp_image.px[<<starts[n] + 2, 0>>]>>

\* an iteration of the scan moves the index forward, by 4 past a window it
\* takes; the scan ends, index and triplets as they are, only when
\* index + 3 >= width or the pixel at the index is the sentinel
C30_Iteration ==
    /\ (tp_pc = "scan" /\ tp_pc' = "scan") =>
          /\ tp_idx' > tp_idx
          /\ tp_idx + 3 < tp_image.w
          /\ tp_image.px[<<tp_idx, 0>>] # <<0, 255, 0>>
    /\ tp_triplets' # tp_triplets =>
          /\ Len(tp_triplets') = Len(tp_triplets) + 1
          /\ tp_idx' = tp_idx + 4
    /\ (tp_pc = "scan" /\ tp_pc' = "done") =>
          /\ tp_idx + 3 >= tp_image.w \/ tp_image.px[<<tp_idx, 0>>] = <<0, 255, 0>>
          /\ tp_idx' = tp_idx
          /\ tp_triplets' = tp_triplets
    /\ tp_pc = "done" => tp_pc' = "done"

\* C30: for every first row of any width the scan terminates, its index
\* strictly increasing on every iteration until index + 3 >= width or a
\* sentinel is met; it returns at most floor(width / 4) triplets, and the
\* triplets it returns occupy pairwise non-overlapping 4-pixel windows of the
\* first row, each ending in a sentinel pixel and starting with a pixel that
\* is not the sentinel.
C30_Termination ==
    /\ [](/\ 4 * Len(tp_triplets) <= tp_idx
          /\ tp_idx <= tp_image.w
          /\ Len(tp_triplets) <= tp_image.w \div 4
          /\ C30_Windows)
    /\ [][C30_Iteration]_vars
    /\ <>(tp_pc = "done")

\* the scan skipped a pixel, took two windows and ran to the end of a row of
\* 9 pixels
C30_Witness ==
    /\ tp_pc = "done"
    /\ tp_image.w = 9
    /\ tp_idx = 9
    /\ Len(tp_triplets) = 2

====
